---- MODULE Spec2Model ----
(***************************************************************************)
(* SpecRun: batch dispatcher (confirmation gate, ordered item loop),       *)
(* request executor (executeRequest and its request builder) and the       *)
(* .env refresh that every invocation performs first.                      *)
(***************************************************************************)
EXTENDS Integers, Sequences, FiniteSets, TLC

(* ----------------------------- bounds ---------------------------------- *)

\* longest explicitly enumerated item list of a batch call
MaxSmall == 2
\* large batches have largeBatchThreshold + 0 .. MaxOver items
MaxOver == 2
\* items of a large batch that are spelled out; the rest carry no arguments
MaxLargeHead == 1
\* confirmation tokens minted in one run (randomUUID draws)
MaxTokens == 2
\* clock advances in one run
MaxTicks == 2
\* edits of the .env file in one run
MaxEdits == 2

\* most variables in an environment given to loadAuthConfig
MaxEnvVars == 3
\* most paths in a description document
MaxPaths == 2
(* ------------------------- program constants --------------------------- *)

largeBatchThreshold == 200
largeBatchTokenTtlMs == 5 * 60 * 1000

(* ----------------------------- values ---------------------------------- *)
\* A JSON value is a tagged record; Absent stands for `undefined`.

Absent == [t |-> "undefined", v |-> ""]
Str(s) == [t |-> "string", v |-> s]
Num(s) == [t |-> "number", v |-> s]
\* a string holding a lone surrogate: encodeURIComponent throws URIError on it
LoneSurrogate == Str("\\uD800")

ArgKeys == {"id", "name", "body", "requestBody", "pet"}

NoArgs == [k \in ArgKeys |-> Absent]
Args1(k, val) == [NoArgs EXCEPT ![k] = val]

(* ------------------------------ tools ---------------------------------- *)
\* GeneratedTool / ToolParameter records of the loaded catalog:
\* cars.json (OpenAPI 3) and pets.json (Swagger 2.0).

Param(n, loc, req, ty) == [name |-> n, in |-> loc, required |-> req, schema |-> ty]

GeneratedTools ==
  { [name |-> <<"cars_getCarById">>, apiName |-> "cars", method |-> "GET",
     path |-> "/cars/{id}", parameters |-> <<Param("id", "path", TRUE, "string")>>,
     requestBody |-> FALSE],
    [name |-> <<"cars_addCar">>, apiName |-> "cars", method |-> "POST",
     path |-> "/cars", parameters |-> <<>>, requestBody |-> FALSE],
    [name |-> <<"cars_updateCar">>, apiName |-> "cars", method |-> "PUT",
     path |-> "/cars/{id}", parameters |-> <<Param("id", "path", TRUE, "string")>>,
     requestBody |-> TRUE],
    [name |-> <<"pets_addPet">>, apiName |-> "pets", method |-> "POST",
     path |-> "/pets", parameters |-> <<Param("pet", "body", FALSE, "object")>>,
     requestBody |-> FALSE] }

ToolNames == {t.name : t \in GeneratedTools}
ToolByName(n) == CHOOSE t \in GeneratedTools : t.name = n
ApiNames == {t.apiName : t \in GeneratedTools}

ParamNames(tool) == {tool.parameters[i].name : i \in DOMAIN tool.parameters}

(* --------------------------- tool compilation -------------------------- *)
\* A validated document is the list of its paths entries. A path item is
\* either not an object or holds path-level parameters (a list, or a value
\* that cannot be spread) and, per verb, an operation: absent, one that
\* compiles ("ok"), or one whose parameters cannot be spread ("malformed").

Methods == <<"get", "post", "put", "patch", "delete", "head", "options">>
PathTemplates == <<"/cars", "/cars/{id}", "/pets">>
OperationOf(pathItem, method) ==
  IF method \in DOMAIN pathItem.ops THEN pathItem.ops[method] ELSE "absent"

\* createToolFromOperation letting the exception of a malformed operation out
createToolFromOperation_throws(pathTemplate, method, operation, pathLevelParams) ==
  IF pathLevelParams = "notIterable" \/ operation = "malformed"
  THEN [kind |-> "throw", path |-> pathTemplate, method |-> method]
  ELSE [kind |-> "tool", path |-> pathTemplate, method |-> method]

\* createToolFromOperation: the tool, or null when anything inside the try throws
createToolFromOperation(pathTemplate, method, operation, pathLevelParams) ==
  IF pathLevelParams = "notIterable" \/ operation = "malformed"
  THEN [kind |-> "null", path |-> pathTemplate, method |-> method]
  ELSE [kind |-> "tool", path |-> pathTemplate, method |-> method]

IsTool(r) == r.kind = "tool"
\* the inner loop of generateToolsFromSpec: what each verb of a path item gives
CompiledOf(pathTemplate, pathItem) ==
  [k \in DOMAIN Methods |->
     IF ~pathItem.isObject \/ OperationOf(pathItem, Methods[k]) = "absent"
     THEN [kind |-> "skip", path |-> pathTemplate, method |-> Methods[k]]
     ELSE createToolFromOperation(pathTemplate, Methods[k],
                                  OperationOf(pathItem, Methods[k]), pathItem.parameters)]

RECURSIVE CompiledFrom(_, _)
CompiledFrom(paths, i) ==
  IF i > Len(paths) THEN <<>>
  ELSE CompiledOf(PathTemplates[i], paths[i]) \o CompiledFrom(paths, i + 1)

\* generateToolsFromSpec: the tools in document order; an exception leaving
\* createToolFromOperation would end parseOpenApiSpec with no tools at all
generateToolsFromSpec(paths) ==
  IF \E k \in DOMAIN CompiledFrom(paths, 1) : CompiledFrom(paths, 1)[k].kind = "throw"
  THEN <<>>
  ELSE SelectSeq(CompiledFrom(paths, 1), IsTool)

\* A tool name is the list of its "_"-separated words. An operation is named
\* from the API name of its file, its operationId (<<>> when it has none),
\* its path template (the list of its "/"-separated parts) and its verb.
IsPathParameter(part) == part \in {"{id}", "{carId}"}
NotPathParameter(part) == ~IsPathParameter(part)

\* generateToolName: apiName_operationId, or apiName_method_parts with the
\* {parameter} parts of the path left out ("root" when none remains)
generateToolName(apiName, operationId, pathParts, method) ==
  IF operationId # <<>> THEN apiName \o operationId
  ELSE LET parts == SelectSeq(pathParts, NotPathParameter)
       IN apiName \o <<method>> \o (IF parts = <<>> THEN <<"root">> ELSE parts)

\* toolRegistry.set(tool.name, ...) for each tool in turn: the position of
\* the tool each name ends up bound to
RegisteredAs(names) ==
  [n \in {names[k] : k \in DOMAIN names} |->
     CHOOSE k \in DOMAIN names : names[k] = n /\ \A j \in DOMAIN names : names[j] = n => j <= k]

\* A declared parameter: name and location ("" when absent), the declared
\* required flag ("true", "false" or "undefined"), the schema that
\* getParameterSchema finds ("none" when it finds none).
extractParameter_asDeclared(param) ==
  [name |-> param.name, in |-> param.in, required |-> param.required = "true",
   schema |-> param.schema]

\* one Parameter Descriptor: required is param.required || param.in === "path"
extractParameter(param) ==
  [name |-> param.name, in |-> param.in,
   required |-> (param.required = "true" \/ param.in = "path"),
   schema |-> param.schema]

Extractable(param) == param.in # "" /\ param.name # "" /\ param.schema # "none"

\* extractParameters: the descriptors of the declared parameters that have a
\* location, a name and a schema, in the declared order
RECURSIVE extractParameters(_)
extractParameters(paramRefs) ==
  IF paramRefs = <<>> THEN <<>>
  ELSE (IF Extractable(Head(paramRefs)) THEN <<extractParameter(Head(paramRefs))>> ELSE <<>>)
       \o extractParameters(Tail(paramRefs))

(* ------------------------ schema synthesis ----------------------------- *)

\* openAPISchemaToZod: the validator synthesized for a schema fragment
openAPISchemaToZod(schema) ==
  IF schema \in {"string", "number", "integer", "boolean", "array", "object"}
  THEN schema ELSE "any"

\* does a validator accept a value (undefined included)
ZodAccepts(validator, val) ==
  CASE validator = "any" -> TRUE
    [] validator = "integer" -> val.t = "number"
    [] OTHER -> val.t = validator

\* buildZodSchema: one field per parameter (later same-named entries replace
\* earlier ones), an accept-anything optional body field and passthrough
\* when the tool declares a request body
buildZodSchema(tool) ==
  LET idx(k) == {i \in DOMAIN tool.parameters : tool.parameters[i].name = k}
      last(k) == CHOOSE i \in idx(k) : \A j \in idx(k) : j <= i
      fields == [k \in ParamNames(tool) |->
                   [validator |-> openAPISchemaToZod(tool.parameters[last(k)].schema),
                    optional |-> ~tool.parameters[last(k)].required]]
  IN [fields |-> IF tool.requestBody /\ "body" \notin ParamNames(tool)
                 THEN [k \in ParamNames(tool) \cup {"body"} |->
                         IF k = "body" THEN [validator |-> "any", optional |-> TRUE]
                         ELSE fields[k]]
                 ELSE IF tool.requestBody
                 THEN [fields EXCEPT !["body"] = [validator |-> "any", optional |-> TRUE]]
                 ELSE fields,
      passthrough |-> tool.requestBody]

\* schema.safeParse(itemArgs): success flag and the parsed data (unknown keys
\* are stripped unless the schema is passthrough)
safeParse(schema, args) ==
  LET ok(k) == IF args[k] = Absent
               THEN schema.fields[k].optional \/ schema.fields[k].validator = "any"
               ELSE ZodAccepts(schema.fields[k].validator, args[k])
  IN [success |-> \A k \in DOMAIN schema.fields : ok(k),
      data |-> [k \in ArgKeys |->
                  IF k \in DOMAIN schema.fields \/ schema.passthrough
                  THEN args[k] ELSE Absent]]

\* A dereferenced schema is a table of fragments: each has a type ("untyped"
\* when it declares none, "file" for one the switch does not know,
\* "notObject" when the fragment is no object at all) and, for an array or
\* an object, the fragment of its items or of its one property (0: none).
\* A $ref cycle of the document is a cycle of the table.
SchemaTypes ==
  {"string", "number", "integer", "boolean", "array", "object",
   "file", "untyped", "notObject"}
Nested(schemas, ref) ==
  IF ref # 0 /\ schemas[ref].type \in {"array", "object"} /\ schemas[ref].child # 0
  THEN {schemas[ref].child} ELSE {}

\* the fragments openAPISchemaToZod is called on below those of a set
RECURSIVE NestedBelow(_, _, _)
NestedBelow(schemas, refs, n) ==
  IF n = 0 THEN {}
  ELSE LET next == UNION {Nested(schemas, r) : r \in refs}
       IN next \cup NestedBelow(schemas, next, n - 1)

\* the recursion comes back to a fragment it is already converting
SelfReferential(schemas, ref) ==
  \E r \in {ref} \cup NestedBelow(schemas, {ref}, Len(schemas)) :
    r # 0 /\ r \in NestedBelow(schemas, {r}, Len(schemas))

\* openAPISchemaToZod on a fragment of the table: the validator as a tree
RECURSIVE openAPISchemaToZodAt(_, _)
openAPISchemaToZodAt(schemas, ref) ==
  IF ref = 0 \/ schemas[ref].type = "notObject" THEN <<"any">>
  ELSE CASE schemas[ref].type \in {"string", "number", "integer", "boolean"} ->
              <<schemas[ref].type>>
         [] schemas[ref].type = "array" ->
              <<"array", openAPISchemaToZodAt(schemas, schemas[ref].child)>>
         [] schemas[ref].type = "object" ->
              IF schemas[ref].child = 0 THEN <<"object">>
              ELSE <<"object", openAPISchemaToZodAt(schemas, schemas[ref].child)>>
         [] OTHER -> <<"any">>

\* buildZodSchema on a parameter with that schema, as registerTool calls it:
\* a recursion that never ends exhausts the call stack (RangeError), nothing
\* catches it and toolRegistry.set is not reached
RegisterWithSchema(schemas, ref) ==
  IF SelfReferential(schemas, ref)
  THEN [threw |-> TRUE, validator |-> <<>>, registered |-> FALSE]
  ELSE [threw |-> FALSE, validator |-> openAPISchemaToZodAt(schemas, ref),
        registered |-> TRUE]

(* ------------------------- request building ---------------------------- *)

NullBody == [kind |-> "null", val |-> Absent, obj |-> NoArgs]
ValueBody(val) == [kind |-> "value", val |-> val, obj |-> NoArgs]
ObjectBody(obj) == [kind |-> "object", val |-> Absent, obj |-> obj]

\* buildRequestBody preferring the requestBody argument to the body argument
buildRequestBody_requestBodyFirst(tool, args) ==
  LET bodyIdx == {i \in DOMAIN tool.parameters : tool.parameters[i].in = "body"}
      bodyParam == tool.parameters[CHOOSE i \in bodyIdx : \A j \in bodyIdx : i <= j]
      bodyArgs == [k \in ArgKeys |-> IF k \in ParamNames(tool) THEN Absent ELSE args[k]]
  IN IF ~tool.requestBody
     THEN IF bodyIdx = {} THEN NullBody
          ELSE IF args[bodyParam.name] # Absent THEN ValueBody(args[bodyParam.name])
          ELSE IF args["body"] # Absent THEN ValueBody(args["body"])
          ELSE NullBody
     ELSE IF args["requestBody"] # Absent THEN ValueBody(args["requestBody"])
     ELSE IF args["body"] # Absent THEN ValueBody(args["body"])
     ELSE IF \E k \in ArgKeys : bodyArgs[k] # Absent THEN ObjectBody(bodyArgs)
     ELSE NullBody

\* buildRequestBody without the collection of the non-parameter arguments
buildRequestBody_noLeftover(tool, args) ==
  LET bodyIdx == {i \in DOMAIN tool.parameters : tool.parameters[i].in = "body"}
      bodyParam == tool.parameters[CHOOSE i \in bodyIdx : \A j \in bodyIdx : i <= j]
  IN IF ~tool.requestBody
     THEN IF bodyIdx = {} THEN NullBody
          ELSE IF args[bodyParam.name] # Absent THEN ValueBody(args[bodyParam.name])
          ELSE IF args["body"] # Absent THEN ValueBody(args["body"])
          ELSE NullBody
     ELSE IF args["body"] # Absent THEN ValueBody(args["body"])
     ELSE IF args["requestBody"] # Absent THEN ValueBody(args["requestBody"])
     ELSE NullBody

\* HttpClient.buildRequestBody
buildRequestBody(tool, args) ==
  LET bodyIdx == {i \in DOMAIN tool.parameters : tool.parameters[i].in = "body"}
      bodyParam == tool.parameters[CHOOSE i \in bodyIdx : \A j \in bodyIdx : i <= j]
      bodyArgs == [k \in ArgKeys |-> IF k \in ParamNames(tool) THEN Absent ELSE args[k]]
  IN IF ~tool.requestBody
     THEN IF bodyIdx = {} THEN NullBody
          ELSE IF args[bodyParam.name] # Absent THEN ValueBody(args[bodyParam.name])
          ELSE IF args["body"] # Absent THEN ValueBody(args["body"])
          ELSE NullBody
     ELSE IF args["body"] # Absent THEN ValueBody(args["body"])
     ELSE IF args["requestBody"] # Absent THEN ValueBody(args["requestBody"])
     ELSE IF \E k \in ArgKeys : bodyArgs[k] # Absent THEN ObjectBody(bodyArgs)
     ELSE NullBody

\* a URL string: origin and path part
Url(origin, path) == [origin |-> origin, path |-> path]
\* String.replace(/\/$/, ""): drop one trailing slash
StripTrailingSlash(path) ==
  CASE path = "/" -> ""
    [] path = "/v1/" -> "/v1"
    [] OTHER -> path

\* encodeURIComponent(String(value)) throws URIError on a lone surrogate
EncodeThrows(val) == val = LoneSurrogate
encodeURIComponent(val) == [t |-> "encoded", v |-> val.v]

PathParamsIn(tool, args) ==
  {tool.parameters[i].name : i \in {j \in DOMAIN tool.parameters :
      tool.parameters[j].in = "path" /\ args[tool.parameters[j].name] # Absent}}

\* HttpClient.buildUrl: base URL without its trailing slash, the path template
\* and the substituted (encoded) path arguments
buildUrl(tool, baseUrl, args) ==
  [base |-> Url(baseUrl.origin, StripTrailingSlash(baseUrl.path)),
   path |-> tool.path,
   subst |-> [k \in ArgKeys |-> IF k \in PathParamsIn(tool, args)
                               THEN encodeURIComponent(args[k]) ELSE Absent]]

NoUrl == [base |-> Url("", ""), path |-> "",
          subst |-> [k \in ArgKeys |-> Absent]]

\* an Auth Record; "" stands for a field that is not set
AuthRecord(type, token, username, password, headerName) ==
  [type |-> type, token |-> token, username |-> username,
   password |-> password, headerName |-> headerName]
NoAuth == AuthRecord("none", "", "", "", "")

HeaderNames == {"Authorization", "X-API-Key", "Content-Type"}

\* applyAuthentication: header values are token lists, << >> is "not set"
applyAuthentication(headers, auth) ==
  CASE auth.type = "bearer" /\ auth.token # "" ->
         [headers EXCEPT !["Authorization"] = <<"Bearer", auth.token>>]
    [] auth.type = "apiKey" /\ auth.token # "" /\ auth.headerName # "" ->
         [headers EXCEPT ![auth.headerName] = <<auth.token>>]
    [] auth.type = "basic" /\ auth.username # "" /\ auth.password # "" ->
         [headers EXCEPT !["Authorization"] = <<"Basic", auth.username, auth.password>>]
    [] OTHER -> headers

\* HttpClient.buildRequestConfig: threw is the exception of a local failure
buildRequestConfig(tool, baseUrl, auth, args) ==
  LET data == buildRequestBody(tool, args)
      h0 == applyAuthentication([h \in HeaderNames |-> <<>>], auth)
      headers == IF data.kind # "null" /\ h0["Content-Type"] = <<>>
                 THEN [h0 EXCEPT !["Content-Type"] = <<"application/json">>]
                 ELSE h0
  IN IF \E k \in PathParamsIn(tool, args) : EncodeThrows(args[k])
     THEN [threw |-> TRUE, method |-> tool.method, url |-> NoUrl,
           headers |-> [h \in HeaderNames |-> <<>>], data |-> NullBody]
     ELSE [threw |-> FALSE, method |-> tool.method,
           url |-> buildUrl(tool, baseUrl, args), headers |-> headers,
           data |-> data]

(* ----------------------------- transport ------------------------------- *)

HttpStatus(code) == [num |-> TRUE, code |-> code, text |-> ""]
Sentinel(text) == [num |-> FALSE, code |-> 0, text |-> text]
IsSuccessStatus(status) == status.num /\ status.code >= 200 /\ status.code < 300

\* The remote the requests go to: car "1" exists, car "2" does not, a request
\* for car "3" gets no response, any other car makes the server fail without
\* a body; creating a resource answers 201 with an empty body.
axios(config) ==
  LET id == config.url.subst["id"].v
  IN CASE config.method = "POST" ->
            [kind |-> "response", status |-> 201, data |-> Absent]
       [] config.method # "POST" /\ id = "1" ->
            [kind |-> "response", status |-> 200, data |-> Str("car-1")]
       [] config.method # "POST" /\ id = "2" ->
            [kind |-> "errorStatus", status |-> 404, data |-> Str("not found")]
       [] config.method # "POST" /\ id = "3" ->
            [kind |-> "noResponse", status |-> 0, data |-> Absent]
       [] OTHER ->
            [kind |-> "errorStatus", status |-> 500, data |-> Absent]

\* ApiCallResult, with the two ways executeRequest can end: a returned result
\* (threw = FALSE) or an exception reaching the caller (threw = TRUE)
ApiCallResult(outcome, url, body, status, respBody) ==
  [threw |-> FALSE, outcome |-> outcome, requestUrl |-> url,
   requestBody |-> body, response |-> [status |-> status, body |-> respBody]]
Thrown(msg) ==
  [threw |-> TRUE, outcome |-> "exception", requestUrl |-> NoUrl,
   requestBody |-> NullBody,
   response |-> [status |-> Sentinel(msg), body |-> Absent]]

\* executeRequest returning a null body for every failed call
executeRequest_dropsErrorBody(tool, baseUrl, auth, args) ==
  LET config == buildRequestConfig(tool, baseUrl, auth, args)
      reply == axios(config)
  IN IF config.threw
     THEN ApiCallResult("failure", NoUrl, NullBody, Sentinel("Error"),
                        [t |-> "object", v |-> "error: URI malformed"])
     ELSE IF reply.kind = "response"
     THEN ApiCallResult("success", config.url, config.data,
                        HttpStatus(reply.status), reply.data)
     ELSE IF reply.kind = "errorStatus"
     THEN ApiCallResult("failure", config.url, config.data,
                        HttpStatus(reply.status), Absent)
     ELSE ApiCallResult("failure", config.url, config.data,
                        Sentinel("Unknown"), Absent)

\* executeRequest letting an error that is not an axios error escape
executeRequest_rethrows(tool, baseUrl, auth, args) ==
  LET config == buildRequestConfig(tool, baseUrl, auth, args)
      reply == axios(config)
  IN IF config.threw
     THEN Thrown("URI malformed")
     ELSE IF reply.kind = "response"
     THEN ApiCallResult("success", config.url, config.data,
                        HttpStatus(reply.status), reply.data)
     ELSE IF reply.kind = "errorStatus"
     THEN ApiCallResult("failure", config.url, config.data,
                        HttpStatus(reply.status), reply.data)
     ELSE ApiCallResult("failure", config.url, config.data,
                        Sentinel("Unknown"), Absent)

\* HttpClient.executeRequest: try { build; issue } catch { axios error | other }
executeRequest(tool, baseUrl, auth, args) ==
  LET config == buildRequestConfig(tool, baseUrl, auth, args)
      reply == axios(config)
  IN IF config.threw
     THEN ApiCallResult("failure", NoUrl, NullBody, Sentinel("Error"),
                        [t |-> "object", v |-> "error: URI malformed"])
     ELSE IF reply.kind = "response"
     THEN ApiCallResult("success", config.url, config.data,
                        HttpStatus(reply.status), reply.data)
     ELSE IF reply.kind = "errorStatus"
     THEN ApiCallResult("failure", config.url, config.data,
                        HttpStatus(reply.status), reply.data)
     ELSE ApiCallResult("failure", config.url, config.data,
                        Sentinel("Unknown"), Absent)

(* --------------------------- .env and auth ----------------------------- *)
\* An environment variable name is a prefix and a recognized suffix; the
\* .env file and process.env are ordered lists of <<key, value>> entries.

EnvKey(prefix, suffix) == [prefix |-> prefix, suffix |-> suffix]
toLowerCase(prefix) == CASE prefix = "CARS" -> "cars" [] prefix = "PETS" -> "pets"
toUpperCase(apiName) == CASE apiName = "cars" -> "CARS" [] apiName = "pets" -> "PETS"

\* the contents the .env file takes in a run
EnvFiles ==
  { << <<EnvKey("CARS", "_SERVER_URL"), "">>, <<EnvKey("CARS", "_BEARER_TOKEN"), "">> >>,
    << <<EnvKey("CARS", "_API_KEY"), "abc">>, <<EnvKey("CARS", "_SERVER_URL"), "">> >>,
    << <<EnvKey("CARS", "_API_KEY"), "abc">>,
       <<EnvKey("CARS", "_SERVER_URL"), "https://new.cars">>,
       <<EnvKey("PETS", "_SERVER_URL"), "https://new.pets">> >>,
    << <<EnvKey("CARS", "_BEARER_TOKEN"), "xyz">>,
       <<EnvKey("PETS", "_SERVER_URL"), "https://new.pets/v2">> >> }
InitialEnvFile ==
  << <<EnvKey("CARS", "_SERVER_URL"), "">>, <<EnvKey("CARS", "_BEARER_TOKEN"), "">> >>

EnvHas(env, key) == \E i \in DOMAIN env : env[i][1] = key
EnvGet(env, key) == env[CHOOSE i \in DOMAIN env : env[i][1] = key][2]

\* dotenv config({override: true}): every entry of the file is written into
\* process.env, in place when the key exists, appended otherwise
RECURSIVE dotenvConfig(_, _)
dotenvConfig(env, file) ==
  IF file = <<>> THEN env
  ELSE LET e == Head(file)
           next == IF EnvHas(env, e[1])
                   THEN [i \in DOMAIN env |-> IF env[i][1] = e[1] THEN e ELSE env[i]]
                   ELSE Append(env, e)
       IN dotenvConfig(next, Tail(file))

\* the suffix cascade of loadAuthConfig: auth type and the record field set
AuthTypeOf(key) ==
  CASE key.suffix = "_API_KEY" -> "apiKey"
    [] key.suffix = "_BEARER_TOKEN" -> "bearer"
    [] key.suffix = "_TOKEN" -> "bearer"
    [] key.suffix \in {"_USERNAME", "_PASSWORD"} -> "basic"
    [] OTHER -> "none"
ConfigKeyOf(key) ==
  CASE key.suffix = "_USERNAME" -> "username"
    [] key.suffix = "_PASSWORD" -> "password"
    [] OTHER -> "token"

AuthApis == {"cars", "pets"}

\* the record an entry that matched leaves for its API: created with the
\* entry's type when missing, promoted to bearer, the field written, the
\* header name defaulted for an API key
AuthRecordStep(rec, key, value) ==
  LET authType == AuthTypeOf(key)
      rec0 == IF rec = NoAuth THEN AuthRecord(authType, "", "", "", "") ELSE rec
      rec1 == IF authType = "bearer" /\ rec0.type # "bearer"
              THEN [rec0 EXCEPT !.type = authType] ELSE rec0
      rec2 == [rec1 EXCEPT ![ConfigKeyOf(key)] = value]
  IN IF authType = "apiKey" /\ rec2.headerName = ""
     THEN [rec2 EXCEPT !.headerName = "X-API-Key"] ELSE rec2

\* the loop body leaving out the default header name of an API key
AuthStep_noDefaultHeader(authConfig, key, value) ==
  LET authType == AuthTypeOf(key)
      apiName == toLowerCase(key.prefix)
      rec0 == IF authConfig[apiName] = NoAuth
              THEN AuthRecord(authType, "", "", "", "")
              ELSE authConfig[apiName]
      rec1 == IF authType = "bearer" /\ rec0.type # "bearer"
              THEN [rec0 EXCEPT !.type = authType] ELSE rec0
  IN IF value = "" \/ authType = "none" THEN authConfig
     ELSE [authConfig EXCEPT ![apiName] = [rec1 EXCEPT ![ConfigKeyOf(key)] = value]]

\* the loop body taking the type of every entry that matches
AuthStep_lastTypeWins(authConfig, key, value) ==
  LET authType == AuthTypeOf(key)
      apiName == toLowerCase(key.prefix)
      rec == AuthRecordStep(authConfig[apiName], key, value)
  IN IF value = "" \/ authType = "none" THEN authConfig
     ELSE [authConfig EXCEPT ![apiName] = [rec EXCEPT !.type = authType]]

\* the loop body of loadAuthConfig without the test that skips empty values
AuthStep_emptyCounts(authConfig, key, value) ==
  IF AuthTypeOf(key) = "none" THEN authConfig
  ELSE [authConfig EXCEPT ![toLowerCase(key.prefix)] =
          AuthRecordStep(authConfig[toLowerCase(key.prefix)], key, value)]

\* one iteration of the loop of loadAuthConfig over process.env
AuthStep(authConfig, key, value) ==
  IF value = "" \/ AuthTypeOf(key) = "none" THEN authConfig
  ELSE [authConfig EXCEPT ![toLowerCase(key.prefix)] =
          AuthRecordStep(authConfig[toLowerCase(key.prefix)], key, value)]

RECURSIVE AuthScan(_, _)
AuthScan(authConfig, env) ==
  IF env = <<>> THEN authConfig
  ELSE AuthScan(AuthStep(authConfig, Head(env)[1], Head(env)[2]), Tail(env))

\* loadAuthConfig: the Auth Record set computed from process.env
loadAuthConfig(env) == AuthScan([a \in AuthApis |-> NoAuth], env)

\* the values the local authConfig of loadAuthConfig takes: before the loop
\* and after each entry of process.env
AuthTrace(env) ==
  [i \in 1 .. Len(env) + 1 |-> AuthScan([a \in AuthApis |-> NoAuth], SubSeq(env, 1, i - 1))]

\* String.prototype.toLowerCase on the words that occur in names
Lower(w) ==
  CASE w = "CARS" -> "cars" [] w = "PETS" -> "pets" [] w = "GITHUB" -> "github"
    [] w = "API" -> "api" [] w = "MY" -> "my" [] w = "CUSTOM" -> "custom"
    [] w = "OpenAPI" -> "openapi" [] w = "Pets" -> "pets" [] w = "BEARER" -> "bearer"
    [] OTHER -> w
LowerAll(q) == [i \in DOMAIN q |-> Lower(q[i])]

\* A file name without directory and extension is a list of words and
\* separator characters; an API name is a list of words joined by "_".
Separators == {".", "_", "-"}

\* getApiNameFromFile: a final separator + swagger/openapi is trimmed, the
\* rest is lower-cased, every run of other characters becomes one "_", and
\* leading and trailing "_" are removed
getApiNameFromFile(base) ==
  LET n == Len(base)
      trimmed == IF /\ n >= 2
                    /\ base[n - 1] \in Separators
                    /\ Lower(base[n]) \in {"swagger", "openapi"}
                 THEN SubSeq(base, 1, n - 2) ELSE base
      IsWord(w) == w \notin Separators
  IN LowerAll(SelectSeq(trimmed, IsWord))

\* A variable name is a list of words joined by "_". key.match(/^(.+)_TAIL$/)
KeyMatch(key, tail) ==
  Len(key) > Len(tail) /\ SubSeq(key, Len(key) - Len(tail) + 1, Len(key)) = tail
KeyPrefix(key, tail) == SubSeq(key, 1, Len(key) - Len(tail))

\* the pattern cascade of loadAuthConfig on a variable name: the matched
\* prefix and the suffix that classifies the entry ("none" when no branch is taken)
SplitKey(key) ==
  IF KeyMatch(key, <<"API", "KEY">>)
  THEN EnvKey(KeyPrefix(key, <<"API", "KEY">>), "_API_KEY")
  ELSE IF KeyMatch(key, <<"BEARER", "TOKEN">>)
  THEN EnvKey(KeyPrefix(key, <<"BEARER", "TOKEN">>), "_BEARER_TOKEN")
  ELSE IF KeyMatch(key, <<"TOKEN">>) /\ \A i \in DOMAIN key : key[i] # "BEARER"
  THEN EnvKey(KeyPrefix(key, <<"TOKEN">>), "_TOKEN")
  ELSE IF KeyMatch(key, <<"USERNAME">>)
  THEN EnvKey(KeyPrefix(key, <<"USERNAME">>), "_USERNAME")
  ELSE IF KeyMatch(key, <<"PASSWORD">>)
  THEN EnvKey(KeyPrefix(key, <<"PASSWORD">>), "_PASSWORD")
  ELSE EnvKey(key, "none")

\* loadAuthConfig on an environment that holds the single variable key=value:
\* the API name the record is stored under and the record
loadAuthConfigOf(key, value) ==
  LET k == SplitKey(key)
  IN IF value = "" \/ AuthTypeOf(k) = "none"
     THEN [apiName |-> <<>>, record |-> NoAuth]
     ELSE [apiName |-> LowerAll(k.prefix), record |-> AuthRecordStep(NoAuth, k, value)]

\* resolveServerUrl: the trimmed {NAME}_SERVER_URL, "" when unset or blank
resolveServerUrl(apiName, env) ==
  LET envKey == EnvKey(toUpperCase(apiName), "_SERVER_URL")
  IN IF EnvHas(env, envKey) THEN EnvGet(env, envKey) ELSE ""

\* new URL(text): origin and pathname ("/" when the text has no path)
ParseUrl(text) ==
  CASE text = "https://new.cars" -> Url("https://new.cars", "/")
    [] text = "https://new.pets" -> Url("https://new.pets", "/")
    [] text = "https://new.pets/v2" -> Url("https://new.pets", "/v2")
    [] text = "https://api.cars" -> Url("https://api.cars", "/")
    [] text = "https://prod.cars" -> Url("https://prod.cars", "/")
    [] text = "https://over.api" -> Url("https://over.api", "/")
    [] text = "https://over.api/base" -> Url("https://over.api", "/base")
\* the URL a string denotes, as written
UrlOfText(text) ==
  CASE text = "https://new.cars" -> Url("https://new.cars", "")
    [] text = "https://new.pets" -> Url("https://new.pets", "")
    [] text = "https://new.pets/v2" -> Url("https://new.pets", "/v2")
    [] text = "https://api.cars" -> Url("https://api.cars", "")
    [] text = "https://prod.cars" -> Url("https://prod.cars", "")
    [] text = "https://{env}.cars" -> Url("https://{env}.cars", "")
    [] text = "https://over.api" -> Url("https://over.api", "")
    [] text = "https://over.api/base" -> Url("https://over.api", "/base")

\* the parsed description documents: version and declared basePath
ParsedSpecs ==
  [a \in ApiNames |->
     IF a = "cars" THEN [version |-> "openapi", basePath |-> ""]
     ELSE [version |-> "swagger", basePath |-> "/v1"]]
CompiledBaseUrl(apiName) ==
  IF apiName = "cars" THEN Url("https://api.cars", "")
  ELSE Url("https://api.pets", "/v1")

\* OpenApiMcpServer.resolveToolBaseUrl (with appendOpenApiBasePath)
resolveToolBaseUrl(spec, newBaseUrl) ==
  LET parsed == ParseUrl(newBaseUrl)
      hasPath == parsed.path # "/"
  IN IF spec.version = "swagger" /\ ~hasPath /\ spec.basePath # ""
     THEN Url(parsed.origin, StripTrailingSlash(spec.basePath))
     ELSE IF spec.version = "openapi" /\ spec.basePath # "" /\ ~hasPath
     THEN Url(parsed.origin, StripTrailingSlash(spec.basePath))
     ELSE UrlOfText(newBaseUrl)

\* updateToolBaseUrlsFromEnv writing an API's new base URL onto every tool
updateToolBaseUrlsFromEnv_everyTool(baseUrls, env) ==
  [n \in DOMAIN baseUrls |->
     IF \A api \in ApiNames : resolveServerUrl(api, env) = "" THEN baseUrls[n]
     ELSE LET api == CHOOSE a \in ApiNames : resolveServerUrl(a, env) # ""
          IN resolveToolBaseUrl(ParsedSpecs[api], resolveServerUrl(api, env))]

\* OpenApiMcpServer.updateToolBaseUrlsFromEnv: the base URL of every tool
\* of an API whose {NAME}_SERVER_URL is set is replaced
updateToolBaseUrlsFromEnv(baseUrls, env) ==
  [n \in DOMAIN baseUrls |->
     LET api == ToolByName(n).apiName
     IN IF resolveServerUrl(api, env) = "" THEN baseUrls[n]
        ELSE resolveToolBaseUrl(ParsedSpecs[api], resolveServerUrl(api, env))]

(* --------------------------- compiled base URL ------------------------- *)
\* A description document, as far as its base URL goes: version ("openapi"
\* or "swagger"), the x-base-url text ("" when absent), the servers list
\* (url text and whether the {env} variable is declared with a default),
\* and schemes[0], host and basePath ("" when absent).

DEFAULT_SERVER_URL == Url("https://api-server.placeholder", "")

\* String.trim on the texts used here
Trim(text) == IF text = " " THEN "" ELSE text

\* new URL(text) throws on a text that is no URL
IsUrlText(text) == text \notin {"", " ", "https://{env}.cars", "new.pets"}

\* `${scheme}://${host}`
OriginOf(scheme, host) ==
  CASE scheme = "https" /\ host = "api.pets" -> "https://api.pets"
    [] scheme = "http" /\ host = "api.pets" -> "http://api.pets"
    [] scheme = "https" /\ host = "new.pets" -> "https://new.pets"
    [] scheme = "https" /\ host = "new.cars" -> "https://new.cars"
\* URL.protocol without its colon, and URL.host
SchemeOf(origin) == IF origin = "http://api.pets" THEN "http" ELSE "https"
HostOf(origin) ==
  CASE origin = "https://new.pets" -> "new.pets"
    [] origin = "https://new.cars" -> "new.cars"
    [] origin = "https://api.pets" -> "api.pets"
    [] origin = "http://api.pets" -> "api.pets"

\* resolveOpenApi3ServerUrl: the server's url with each {var} replaced by
\* the string default of the variable, when it declares one
resolveOpenApi3ServerUrl(server) ==
  IF server.url = "" THEN DEFAULT_SERVER_URL
  ELSE IF server.url = "https://{env}.cars" /\ server.variables = "default"
  THEN UrlOfText("https://prod.cars")
  ELSE UrlOfText(server.url)

\* getOpenApiBasePath: the trimmed basePath, "" when there is none
getOpenApiBasePath(spec) == Trim(spec.basePath)

\* appendBasePathIfNeeded: a base URL without path gets the base path
appendBasePathIfNeeded(baseUrl, spec) ==
  IF getOpenApiBasePath(spec) = "" THEN baseUrl
  ELSE IF baseUrl.origin = "https://{env}.cars" THEN baseUrl
  ELSE IF baseUrl.path \notin {"", "/"} THEN baseUrl
  ELSE Url(baseUrl.origin, StripTrailingSlash(getOpenApiBasePath(spec)))

\* getBaseUrl: x-base-url and the first server count in an OpenAPI 3
\* document only; a Swagger 2.0 document gives scheme://host + basePath
getBaseUrl(spec) ==
  IF spec.version = "openapi" /\ Trim(spec.xBaseUrl) # ""
  THEN appendBasePathIfNeeded(UrlOfText(Trim(spec.xBaseUrl)), spec)
  ELSE IF spec.version = "openapi" /\ Len(spec.servers) > 0
  THEN appendBasePathIfNeeded(resolveOpenApi3ServerUrl(spec.servers[1]), spec)
  ELSE IF spec.version = "swagger" /\ spec.host # ""
  THEN Url(OriginOf(IF spec.scheme = "" THEN "https" ELSE spec.scheme, spec.host),
           spec.basePath)
  ELSE DEFAULT_SERVER_URL

\* applyOpenApi3ServerUrl: the first server's url becomes newUrl (its other
\* fields stay); a document without servers gets one
applyOpenApi3ServerUrl(spec, newUrl) ==
  IF Len(spec.servers) > 0
  THEN [spec EXCEPT !.servers[1].url = newUrl]
  ELSE [spec EXCEPT !.servers = <<[url |-> newUrl, variables |-> "none"]>>]

\* applySwagger2ServerUrl: scheme and host of newUrl, and its path as
\* basePath when it has one; nothing when newUrl is no URL; servers dropped
applySwagger2ServerUrl(spec, newUrl) ==
  IF ~IsUrlText(newUrl) THEN [spec EXCEPT !.servers = <<>>]
  ELSE LET parsedUrl == ParseUrl(newUrl)
       IN [spec EXCEPT !.scheme = SchemeOf(parsedUrl.origin),
                       !.host = HostOf(parsedUrl.origin),
                       !.basePath = IF parsedUrl.path # "/" THEN parsedUrl.path ELSE @,
                       !.servers = <<>>]

\* updateSpecServerUrls on one description file: the document the file
\* holds once the {NAME}_SERVER_URL value (newUrl, "" when unset) is applied
applyServerUrlToSpec(spec, newUrl) ==
  IF newUrl = "" THEN spec
  ELSE IF spec.version = "swagger" THEN applySwagger2ServerUrl(spec, newUrl)
  ELSE applyOpenApi3ServerUrl(spec, newUrl)

(* ------------------------- confirmation tokens ------------------------- *)
\* Tokens are numbered in the order randomUUID draws them (1, 2, ...);
\* BogusToken is a string that was never drawn, NoToken the empty string.

BogusToken == 0
NoToken == 0 - 1

\* ToolRegistrar.normalizeToolName on a name given as a list of chunks:
\* one known prefix is removed from the front
normalizeToolName(raw) ==
  IF raw # <<>> /\ Head(raw) \in {"mcp_specrun_", "specrun_"} THEN Tail(raw) ELSE raw

\* ToolRegistrar.issueLargeBatchToken: the table with the new token
issueLargeBatchToken(table, token, toolName, count, t) ==
  [k \in DOMAIN table \cup {token} |->
     IF k = token
     THEN [toolName |-> toolName, count |-> count,
           expiresAt |-> t + largeBatchTokenTtlMs]
     ELSE table[k]]

TableWithout(table, token) == [k \in DOMAIN table \ {token} |-> table[k]]

\* isLargeBatchConfirmed treating a token as expired one millisecond early
isLargeBatchConfirmed_expiresEarly(table, confirmLargeBatch, token, toolName, count, t) ==
  IF ~confirmLargeBatch \/ token = NoToken
  THEN [ok |-> FALSE, table |-> table]
  ELSE IF token \notin DOMAIN table
  THEN [ok |-> FALSE, table |-> table]
  ELSE IF table[token].expiresAt <= t + 1
  THEN [ok |-> FALSE, table |-> TableWithout(table, token)]
  ELSE IF table[token].toolName # toolName \/ table[token].count # count
  THEN [ok |-> FALSE, table |-> table]
  ELSE [ok |-> TRUE, table |-> TableWithout(table, token)]

\* isLargeBatchConfirmed leaving an accepted token in the table
isLargeBatchConfirmed_noDelete(table, confirmLargeBatch, token, toolName, count, t) ==
  IF ~confirmLargeBatch \/ token = NoToken
  THEN [ok |-> FALSE, table |-> table]
  ELSE IF token \notin DOMAIN table
  THEN [ok |-> FALSE, table |-> table]
  ELSE IF table[token].expiresAt <= t
  THEN [ok |-> FALSE, table |-> TableWithout(table, token)]
  ELSE IF table[token].toolName # toolName \/ table[token].count # count
  THEN [ok |-> FALSE, table |-> table]
  ELSE [ok |-> TRUE, table |-> table]

\* isLargeBatchConfirmed comparing the tool name only
isLargeBatchConfirmed_ignoresCount(table, confirmLargeBatch, token, toolName, count, t) ==
  IF ~confirmLargeBatch \/ token = NoToken
  THEN [ok |-> FALSE, table |-> table]
  ELSE IF token \notin DOMAIN table
  THEN [ok |-> FALSE, table |-> table]
  ELSE IF table[token].expiresAt <= t
  THEN [ok |-> FALSE, table |-> TableWithout(table, token)]
  ELSE IF table[token].toolName # toolName
  THEN [ok |-> FALSE, table |-> table]
  ELSE [ok |-> TRUE, table |-> TableWithout(table, token)]

\* isLargeBatchConfirmed dropping a token it refuses for its binding
isLargeBatchConfirmed_deletesOnMismatch(table, confirmLargeBatch, token, toolName, count, t) ==
  IF ~confirmLargeBatch \/ token = NoToken
  THEN [ok |-> FALSE, table |-> table]
  ELSE IF token \notin DOMAIN table
  THEN [ok |-> FALSE, table |-> table]
  ELSE IF table[token].expiresAt <= t
  THEN [ok |-> FALSE, table |-> TableWithout(table, token)]
  ELSE IF table[token].toolName # toolName \/ table[token].count # count
  THEN [ok |-> FALSE, table |-> TableWithout(table, token)]
  ELSE [ok |-> TRUE, table |-> TableWithout(table, token)]

\* ToolRegistrar.isLargeBatchConfirmed: the answer and the table it leaves
isLargeBatchConfirmed(table, confirmLargeBatch, token, toolName, count, t) ==
  IF ~confirmLargeBatch \/ token = NoToken
  THEN [ok |-> FALSE, table |-> table]
  ELSE IF token \notin DOMAIN table
  THEN [ok |-> FALSE, table |-> table]
  ELSE IF table[token].expiresAt <= t
  THEN [ok |-> FALSE, table |-> TableWithout(table, token)]
  ELSE IF table[token].toolName # toolName \/ table[token].count # count
  THEN [ok |-> FALSE, table |-> table]
  ELSE [ok |-> TRUE, table |-> TableWithout(table, token)]

\* the size test with >= in place of >
ExceedsThreshold_atThreshold(count) == count >= largeBatchThreshold

\* the size test of the gate: items.length > largeBatchThreshold
ExceedsThreshold(count) == count > largeBatchThreshold

(* ------------------------------ inputs --------------------------------- *)

\* argument sets used as batch items: car 1, 2, 3, a malformed id and no id
ItemArgs ==
  {Args1("id", Str("1")), Args1("id", Str("2")), Args1("id", Str("3")),
   Args1("id", LoneSurrogate), NoArgs}

RECURSIVE SeqsUpTo(_, _)
SeqsUpTo(S, n) ==
  IF n = 0 THEN {<<>>}
  ELSE SeqsUpTo(S, n - 1) \cup
       {Append(q, x) : q \in {r \in SeqsUpTo(S, n - 1) : Len(r) = n - 1}, x \in S}

\* an items array: its length n, its first Len(head) items, and the item
\* every later position holds
Items(n, head, fill) == [n |-> n, head |-> head, fill |-> fill]
ItemAt(items, index) ==
  IF index < Len(items.head) THEN items.head[index + 1] ELSE items.fill

SmallItems == {Items(Len(h), h, NoArgs) : h \in SeqsUpTo(ItemArgs, MaxSmall) \ {<<>>}}
LargeItems ==
  {Items(n, h, NoArgs) : n \in largeBatchThreshold .. largeBatchThreshold + MaxOver,
                         h \in SeqsUpTo({Args1("id", Str("1")), Args1("id", Str("2"))},
                                        MaxLargeHead)}

\* a specrun_batch call: its arguments
BatchArgs(rawToolName, items, failFast, confirmLargeBatch, token) ==
  [toolName |-> rawToolName, items |-> items, failFast |-> failFast,
   confirmLargeBatch |-> confirmLargeBatch, confirmLargeBatchToken |-> token]

\* short batches without confirmation fields
SmallCalls ==
  {BatchArgs(<<"cars_getCarById">>, i, f, FALSE, NoToken) :
     i \in SmallItems, f \in BOOLEAN}
\* batches at and over the threshold, with every combination of the
\* confirmation fields
LargeCalls ==
  {BatchArgs(<<"cars_getCarById">>, i, f, c, t) :
     i \in LargeItems, f \in BOOLEAN, c \in BOOLEAN,
     t \in (1 .. MaxTokens) \cup {BogusToken, NoToken}}
  \cup
  {BatchArgs(<<"mcp_specrun_", "cars_updateCar">>,
             Items(largeBatchThreshold + 1, <<>>, NoArgs), FALSE, c, t) :
     c \in BOOLEAN, t \in (1 .. MaxTokens) \cup {NoToken}}
\* a batch of exactly largeBatchThreshold items that all parse
ThresholdCalls ==
  {BatchArgs(<<"cars_getCarById">>,
             Items(largeBatchThreshold, <<>>, Args1("id", Str("1"))), f, FALSE, NoToken) :
     f \in BOOLEAN}
\* the batches run while the .env file changes
EnvCalls ==
  {BatchArgs(<<"cars_getCarById">>, Items(Len(h), h, NoArgs), FALSE, FALSE, NoToken) :
     h \in {<<Args1("id", Str("1")), Args1("id", Str("2"))>>}}
\* batches naming a tool that is not registered
UnknownCalls ==
  {BatchArgs(<<"specrun_", "nosuch_tool">>, i, FALSE, c, t) :
     i \in {Items(1, <<Args1("id", Str("1"))>>, NoArgs),
            Items(largeBatchThreshold + 1, <<>>, NoArgs)},
     c \in BOOLEAN, t \in (1 .. MaxTokens) \cup {NoToken}}

SingleArgs ==
  {a \in [ArgKeys -> {Absent, Str("1"), Str("2"), Str("3"), LoneSurrogate,
                      Num("5"), Str("Civic"), [t |-> "object", v |-> "payload"]}] :
     /\ a["id"] \in {Absent, Str("1"), Str("2"), Str("3"), LoneSurrogate, Num("5")}
     /\ a["name"] \in {Absent, Str("Civic")}
     /\ \A k \in {"body", "requestBody", "pet"} :
          a[k] \in {Absent, [t |-> "object", v |-> "payload"]}}

\* argument sets given to buildRequestBody: every combination of a path
\* argument, a non-parameter argument and three distinguishable body values
Obj(s) == [t |-> "object", v |-> s]
BodyArgs ==
  {a \in [ArgKeys -> {Absent, Str("1"), Str("Civic"), Obj("b"), Obj("r"), Obj("p")}] :
     /\ a["id"] \in {Absent, Str("1")}
     /\ a["name"] \in {Absent, Str("Civic")}
     /\ a["body"] \in {Absent, Obj("b")}
     /\ a["requestBody"] \in {Absent, Obj("r")}
     /\ a["pet"] \in {Absent, Obj("p")}}

\* the variables an environment given to loadAuthConfig may hold
AuthEntries ==
  { <<EnvKey("CARS", "_API_KEY"), "abc">>, <<EnvKey("CARS", "_TOKEN"), "xyz">>,
    <<EnvKey("CARS", "_BEARER_TOKEN"), "xyz">>, <<EnvKey("CARS", "_BEARER_TOKEN"), "">>,
    <<EnvKey("CARS", "_USERNAME"), "u">>, <<EnvKey("CARS", "_PASSWORD"), "pw">>,
    <<EnvKey("PETS", "_API_KEY"), "k2">>,
    <<EnvKey("CARS", "_SERVER_URL"), "https://new.cars">> }
\* process.env as Object.entries lists it: up to MaxEnvVars variables with
\* distinct names, in any order
AuthEnvs ==
  {env \in SeqsUpTo(AuthEntries, MaxEnvVars) :
     \A i, j \in DOMAIN env : i # j => env[i][1] # env[j][1]}

\* description files of a specs directory (name without extension)
SpecFiles ==
  { <<"cars">>, <<"github", "-", "api">>, <<"my", "_", "custom", "_", "api">>,
    <<"Pets", ".", "OpenAPI">>, <<"pets", "-", "openapi", "-", "v2">> }
\* credential variables a .env file may set for them
KeyPrefixes ==
  { <<"CARS">>, <<"GITHUB">>, <<"GITHUB", "API">>, <<"MY", "CUSTOM">>,
    <<"MY", "CUSTOM", "API">>, <<"PETS">>, <<"PETS", "OPENAPI", "V2">>, <<"BEARER">> }
KeySuffixes ==
  { <<"API", "KEY">>, <<"TOKEN">>, <<"BEARER", "TOKEN">>, <<"USERNAME">>,
    <<"SERVER", "URL">> }
CredentialKeys == {pre \o suf : pre \in KeyPrefixes, suf \in KeySuffixes}

\* the verbs a path item of the documents below may hold an operation for
DocVerbs == {"get", "options", "trace"}
PathItems ==
  {[isObject |-> FALSE, parameters |-> "list", ops |-> [v \in DocVerbs |-> "absent"]]}
  \cup [isObject : {TRUE}, parameters : {"list", "notIterable"},
        ops : [DocVerbs -> {"absent", "ok", "malformed"}]]
Documents == SeqsUpTo(PathItems, MaxPaths)

\* operations given to generateToolName: three description files
\* (cars.json, cars-v2.json, cars.openapi.yaml), with and without operationId
NamedFiles == {<<"cars">>, <<"cars", "-", "v2">>, <<"cars", ".", "openapi">>}
NamedOperations ==
  [file : NamedFiles,
   operationId : {<<>>, <<"getCar">>, <<"v2", "getCar">>},
   pathParts : {<<>>, <<"cars">>, <<"cars", "{id}">>},
   method : {"get", "post"}]
\* two distinct operations: of two files, or of two (path, verb) places of one
OperationPairs ==
  {pair \in NamedOperations \X NamedOperations :
     \/ pair[1].file # pair[2].file
     \/ <<pair[1].pathParts, pair[1].method>> # <<pair[2].pathParts, pair[2].method>>}

\* parameters as a document declares them
DeclaredParams ==
  [name : {"id", "q", ""}, in : {"path", "query", "body", ""},
   required : {"true", "false", "undefined"}, schema : {"string", "none"}]
MaxParams == 2
ParamLists == UNION {[1..n -> DeclaredParams] : n \in 0..MaxParams}

\* tools whose parameters have every kind of schema fragment, and argument
\* sets with and without each of them
FragmentTypes == {"string", "number", "file", "untyped"}
SchemaParams(n) == {Param(n, "query", req, ty) : req \in BOOLEAN, ty \in FragmentTypes}
SchemaTools ==
  {[name |-> <<"cars_listCars">>, apiName |-> "cars", method |-> "GET",
    path |-> "/cars", parameters |-> ps, requestBody |-> rb] :
     ps \in {<<a>> : a \in SchemaParams("id")}
            \cup {<<a, b>> : a \in SchemaParams("id"), b \in SchemaParams("name")},
     rb \in BOOLEAN}
SchemaArgs ==
  {a \in [ArgKeys -> {Absent, Str("1"), Num("5"), Str("Civic")}] :
     /\ a["id"] \in {Absent, Str("1"), Num("5")}
     /\ a["name"] \in {Absent, Str("Civic")}
     /\ \A k \in {"body", "requestBody", "pet"} : a[k] = Absent}

\* dereferenced schemas of up to MaxNodes fragments
MaxNodes == 2
SchemaNodes(n) ==
  {f \in [type : SchemaTypes, child : 0..n] :
     f.type \notin {"array", "object"} => f.child = 0}
SchemaTables == UNION {[1..n -> SchemaNodes(n)] : n \in 1..MaxNodes}

\* description documents for getBaseUrl: OpenAPI 3 documents with and
\* without x-base-url and servers, Swagger 2.0 documents with and without
\* x-base-url, schemes, host and basePath
OverrideTexts == {"", " ", "https://over.api", "https://over.api/base"}
ServerEntries ==
  {[url |-> "https://api.cars", variables |-> "none"],
   [url |-> "https://{env}.cars", variables |-> "default"]}
BaseUrlDocs ==
  {[version |-> "openapi", xBaseUrl |-> x, servers |-> s,
    scheme |-> "", host |-> "", basePath |-> ""] :
     x \in OverrideTexts,
     s \in {<<>>} \cup {<<a>> : a \in ServerEntries}
             \cup {<<a, b>> : a \in ServerEntries, b \in ServerEntries}}
  \cup
  {[version |-> "swagger", xBaseUrl |-> x, servers |-> <<>>,
    scheme |-> sc, host |-> h, basePath |-> bp] :
     x \in OverrideTexts, sc \in {"", "http"}, h \in {"", "api.pets"},
     bp \in {"", "/v1"}}
\* values of {NAME}_SERVER_URL, as resolveServerUrl returns them
ServerUrlTexts == {"https://new.cars", "https://new.pets", "https://new.pets/v2"}

\* two handler slots for the invocations that interleave at their awaits
RaceProcs == {1, 2}
\* batches over the threshold for one tool, with the confirmation fields
RaceCalls ==
  {BatchArgs(<<"cars_getCarById">>, Items(n, h, NoArgs), FALSE, c, t) :
     n \in {largeBatchThreshold + 1, largeBatchThreshold + 2},
     h \in {<<>>, <<Args1("id", Str("1"))>>},
     c \in BOOLEAN, t \in (1 .. MaxTokens) \cup {NoToken}}

\* the single calls made while another invocation is in progress
AtomicArgs == {Args1("id", Str("1")), Args1("id", Str("2"))}

(* ------------------------------- state --------------------------------- *)

VARIABLES
  now,                      \* Date.now()
  ticks,                    \* clock advances so far
  largeBatchConfirmations,  \* token -> {toolName, count, expiresAt}
  uuids,                    \* tokens drawn from randomUUID so far
  toolRegistry,             \* tool name -> {tool, schema}
  toolBaseUrl,              \* tool name -> tool.baseUrl
  authConfig,               \* API name -> Auth Record
  processEnv,               \* process.env
  envFile,                  \* contents of the .env file
  envMtimeMs,               \* mtime of the .env file
  lastEnvMtimeMs,           \* mtime seen by the last refresh
  edits,                    \* edits of the .env file so far
  envWatchTimeout,          \* the debounce timer of the .env watcher is armed
  inv,                      \* the invocation each handler slot is running
  accepted                  \* token -> number of calls the gate let pass on it

vars == <<now, ticks, largeBatchConfirmations, uuids, toolRegistry, toolBaseUrl,
          authConfig, processEnv, envFile, envMtimeMs, lastEnvMtimeMs, edits,
          envWatchTimeout, inv, accepted>>

clockVars == <<now, ticks>>
tokenVars == <<largeBatchConfirmations, uuids, accepted>>
fileVars == <<envFile, envMtimeMs, edits, envWatchTimeout>>
configVars == <<authConfig, processEnv, toolBaseUrl, lastEnvMtimeMs>>

Procs == {1}

NoRequest ==
  [threw |-> FALSE, method |-> "", url |-> NoUrl,
   headers |-> [h \in HeaderNames |-> <<>>], data |-> NullBody]
NoResult == ApiCallResult("none", NoUrl, NullBody, Sentinel(""), Absent)
NoItems == Items(0, <<>>, NoArgs)

Idle ==
  [pc |-> "idle", kind |-> "none", toolName |-> <<>>,
   items |-> NoItems, failFast |-> FALSE, confirmLargeBatch |-> FALSE,
   confirmLargeBatchToken |-> NoToken, index |-> 0, results |-> <<>>,
   validated |-> <<>>, dispatched |-> <<>>, pending |-> NoResult,
   response |-> "none", issuedToken |-> NoToken, args |-> NoArgs,
   request |-> NoRequest, refreshed |-> FALSE]

Init ==
  /\ now = 0
  /\ ticks = 0
  /\ largeBatchConfirmations = [k \in {} |-> 0]
  /\ uuids = 0
  /\ toolRegistry = [n \in ToolNames |->
                       [tool |-> ToolByName(n), schema |-> buildZodSchema(ToolByName(n))]]
  /\ toolBaseUrl = [n \in ToolNames |-> CompiledBaseUrl(ToolByName(n).apiName)]
  /\ envFile = InitialEnvFile
  /\ processEnv = dotenvConfig(<<>>, InitialEnvFile)
  /\ authConfig = loadAuthConfig(dotenvConfig(<<>>, InitialEnvFile))
  /\ envMtimeMs = 0
  /\ lastEnvMtimeMs = 0
  /\ edits = 0
  /\ envWatchTimeout = FALSE
  /\ inv = [p \in Procs |-> Idle]
  /\ accepted = [k \in BogusToken .. MaxTokens |-> 0]

(* ------------------------------ refresh -------------------------------- *)

\* refreshEnvConfigIfChanged without the early return on an unchanged mtime
refreshEnvConfigIfChanged_always(force) ==
  /\ processEnv' = dotenvConfig(processEnv, envFile)
  /\ authConfig' = loadAuthConfig(dotenvConfig(processEnv, envFile))
  /\ toolBaseUrl' = updateToolBaseUrlsFromEnv(toolBaseUrl,
                                              dotenvConfig(processEnv, envFile))
  /\ lastEnvMtimeMs' = envMtimeMs

\* OpenApiMcpServer.refreshEnvConfigIfChanged(force)
refreshEnvConfigIfChanged(force) ==
  IF ~force /\ envMtimeMs = lastEnvMtimeMs
  THEN UNCHANGED <<authConfig, processEnv, toolBaseUrl, lastEnvMtimeMs>>
  ELSE /\ processEnv' = dotenvConfig(processEnv, envFile)
       /\ authConfig' = loadAuthConfig(dotenvConfig(processEnv, envFile))
       /\ toolBaseUrl' = updateToolBaseUrlsFromEnv(toolBaseUrl,
                                                   dotenvConfig(processEnv, envFile))
       /\ lastEnvMtimeMs' = envMtimeMs

\* what a refresh that finds the file changed leaves in authConfig and toolBaseUrl
RefreshedAuth == loadAuthConfig(dotenvConfig(processEnv, envFile))
RefreshedBaseUrls ==
  updateToolBaseUrlsFromEnv(toolBaseUrl, dotenvConfig(processEnv, envFile))

(* --------------------------- batch dispatcher -------------------------- *)

\* an error entry labelled with the one-based position
ErrorEntry_oneBased(index, message) == [index |-> index + 1, error |-> message]

\* the two shapes of a per-index outcome: {index, error} and {index, result}
ErrorEntry(index, message) == [index |-> index, error |-> message]
ResultEntry(index, output) == [index |-> index, result |-> output]
IsErrorEntry(e) == "error" \in DOMAIN e

\* the loop dispatching every item, parsed or not
Dispatchable_always(schema, itemArgs) == TRUE

\* the test after safeParse: only an item that parsed goes on to executeRequest
Dispatchable(schema, itemArgs) == safeParse(schema, itemArgs).success

\* The for loop of specrun_batch from `index` up to its next await, in closed
\* form: the items from `index` that fail safeParse get an error entry each
\* (with fail-fast the first of them breaks the loop), and the first item
\* that parses is dispatched through executeRequest.
RunLoop(st, entry, baseUrl, auth) ==
  LET n == st.items.n
      fillParses == Dispatchable(entry.schema, st.items.fill)
      parses(k) == IF k < Len(st.items.head)
                   THEN Dispatchable(entry.schema, ItemAt(st.items, k))
                   ELSE fillParses
      good == {k \in st.index .. n - 1 : parses(k)}
      first == IF good = {} THEN n ELSE CHOOSE k \in good : \A j \in good : k <= j
      stop == IF st.failFast /\ first > st.index /\ st.index < n
              THEN st.index + 1 ELSE first
      errors == [k \in 1 .. stop - st.index |->
                   ErrorEntry(st.index + k - 1, "invalid arguments")]
      broke == st.failFast /\ first > st.index /\ st.index < n
      last == IF broke \/ first = n THEN stop - 1 ELSE first
      seen == [k \in 1 .. last - st.index + 1 |-> st.index + k - 1]
      after == [st EXCEPT !.results = st.results \o errors,
                          !.validated = st.validated \o seen]
      parsedArgs == safeParse(entry.schema, ItemAt(st.items, first))
  IN IF broke \/ first = n
     THEN [after EXCEPT !.pc = "awaitResource", !.response = "bundle",
                        !.index = IF broke THEN st.index ELSE n]
     ELSE [after EXCEPT !.pc = "awaitHttp", !.index = first,
                        !.dispatched = Append(st.dispatched, first),
                        !.args = parsedArgs.data,
                        !.request = buildRequestConfig(entry.tool, baseUrl, auth,
                                                       parsedArgs.data),
                        !.pending = executeRequest(entry.tool, baseUrl, auth,
                                                   parsedArgs.data)]

\* specrun_batch execute, from its start to its first await
BatchStart(p, a) ==
  LET toolName == normalizeToolName(a.toolName)
      count == a.items.n
      gate == isLargeBatchConfirmed(largeBatchConfirmations, a.confirmLargeBatch,
                                    a.confirmLargeBatchToken, toolName, count, now)
      st0 == [Idle EXCEPT !.kind = "batch", !.toolName = toolName,
                          !.refreshed = (envMtimeMs # lastEnvMtimeMs),
                          !.items = a.items, !.failFast = a.failFast,
                          !.confirmLargeBatch = a.confirmLargeBatch,
                          !.confirmLargeBatchToken = a.confirmLargeBatchToken]
  IN /\ inv[p].pc = "idle"
     /\ a.confirmLargeBatchToken \in (1 .. uuids) \cup {BogusToken, NoToken}
     /\ refreshEnvConfigIfChanged(FALSE)
     /\ IF toolName \notin DOMAIN toolRegistry
        THEN /\ inv' = [inv EXCEPT ![p] = [st0 EXCEPT !.pc = "awaitResource",
                                                      !.response = "unknownTool"]]
             /\ UNCHANGED <<largeBatchConfirmations, uuids, accepted>>
        ELSE IF ExceedsThreshold(count) /\ ~gate.ok
        THEN /\ uuids < MaxTokens
             /\ uuids' = uuids + 1
             /\ largeBatchConfirmations' =
                  issueLargeBatchToken(gate.table, uuids + 1, toolName, count, now)
             /\ inv' = [inv EXCEPT ![p] = [st0 EXCEPT !.pc = "awaitResource",
                                                      !.response = "confirmationRequired",
                                                      !.issuedToken = uuids + 1]]
             /\ UNCHANGED accepted
        ELSE /\ largeBatchConfirmations' =
                  IF ExceedsThreshold(count) THEN gate.table
                  ELSE largeBatchConfirmations
             /\ accepted' =
                  IF ExceedsThreshold(count)
                  THEN [accepted EXCEPT ![a.confirmLargeBatchToken] = @ + 1]
                  ELSE accepted
             /\ inv' = [inv EXCEPT ![p] =
                  RunLoop(st0, toolRegistry[toolName], toolBaseUrl'[toolName],
                          authConfig'[toolRegistry[toolName].tool.apiName])]
             /\ UNCHANGED uuids
     /\ UNCHANGED <<clockVars, fileVars, toolRegistry>>

\* the await of executeRequest inside the loop resumes: the outcome of item
\* `index` is recorded and the loop goes on to its next await
BatchItemDone(p) ==
  LET st == inv[p]
      entry == toolRegistry[st.toolName]
      caught == [st EXCEPT !.results = Append(st.results,
                                              ErrorEntry(st.index, st.pending.response.status.text)),
                           !.pending = NoResult]
      pushed == [st EXCEPT !.results = Append(st.results, ResultEntry(st.index, st.pending)),
                           !.pending = NoResult]
  IN /\ st.pc = "awaitHttp"
     /\ st.kind = "batch"
     /\ inv' = [inv EXCEPT ![p] =
          IF st.pending.threw /\ st.failFast
          THEN [caught EXCEPT !.pc = "awaitResource", !.response = "bundle"]
          ELSE RunLoop([(IF st.pending.threw THEN caught ELSE pushed)
                          EXCEPT !.index = st.index + 1],
                       entry, toolBaseUrl[st.toolName], authConfig[entry.tool.apiName])]
     /\ UNCHANGED <<clockVars, tokenVars, fileVars, configVars, toolRegistry>>

\* createResponseResourceContent resolves and the handler returns its
\* content; the handler slot is free again
ResourceReady(p) ==
  /\ inv[p].pc = "awaitResource"
  /\ inv' = [inv EXCEPT ![p] = Idle]
  /\ UNCHANGED <<clockVars, tokenVars, fileVars, configVars, toolRegistry>>

\* time passes: by a millisecond, or to one millisecond short of a token's life
Tick(d) ==
  /\ ticks < MaxTicks
  /\ ticks' = ticks + 1
  /\ now' = now + d
  /\ UNCHANGED <<tokenVars, fileVars, configVars, toolRegistry, inv>>

TickSteps == {1, largeBatchTokenTtlMs - 1}

(* --------------------------- single tool call -------------------------- *)

\* a tool's execute reading the Auth Record before its refresh and the base
\* URL after it
SingleStart_authBeforeRefresh(p, name, args) ==
  LET entry == toolRegistry[name]
      parsedArgs == safeParse(entry.schema, args)
      auth == authConfig[entry.tool.apiName]
  IN /\ inv[p].pc = "idle"
     /\ parsedArgs.success
     /\ refreshEnvConfigIfChanged(FALSE)
     /\ inv' = [inv EXCEPT ![p] =
          [Idle EXCEPT !.pc = "awaitHttp", !.kind = "single", !.toolName = name,
                       !.refreshed = (envMtimeMs # lastEnvMtimeMs),
                       !.items = Items(1, <<args>>, NoArgs),
                       !.args = parsedArgs.data,
                       !.request = buildRequestConfig(entry.tool, toolBaseUrl'[name],
                                                      auth, parsedArgs.data),
                       !.pending = executeRequest(entry.tool, toolBaseUrl'[name],
                                                  auth, parsedArgs.data)]]
     /\ UNCHANGED <<clockVars, tokenVars, fileVars, toolRegistry>>

\* a registered tool's execute, from its start to the await of executeRequest;
\* the protocol adapter runs it with the arguments its schema parsed
SingleStart(p, name, args) ==
  LET entry == toolRegistry[name]
      parsedArgs == safeParse(entry.schema, args)
      auth == authConfig'[entry.tool.apiName]
  IN /\ inv[p].pc = "idle"
     /\ parsedArgs.success
     /\ refreshEnvConfigIfChanged(FALSE)
     /\ inv' = [inv EXCEPT ![p] =
          [Idle EXCEPT !.pc = "awaitHttp", !.kind = "single", !.toolName = name,
                       !.refreshed = (envMtimeMs # lastEnvMtimeMs),
                       !.items = Items(1, <<args>>, NoArgs),
                       !.args = parsedArgs.data,
                       !.request = buildRequestConfig(entry.tool, toolBaseUrl'[name],
                                                      auth, parsedArgs.data),
                       !.pending = executeRequest(entry.tool, toolBaseUrl'[name],
                                                  auth, parsedArgs.data)]]
     /\ UNCHANGED <<clockVars, tokenVars, fileVars, toolRegistry>>

\* executeRequest resolves: its result becomes the response resource
SingleDone(p) ==
  LET st == inv[p]
  IN /\ st.pc = "awaitHttp"
     /\ st.kind = "single"
     /\ inv' = [inv EXCEPT ![p] =
          IF st.pending.threw
          THEN [st EXCEPT !.pc = "awaitResource", !.response = "thrown",
                          !.pending = NoResult]
          ELSE [st EXCEPT !.pc = "awaitResource", !.response = "single",
                          !.results = <<ResultEntry(0, st.pending)>>,
                          !.pending = NoResult]]
     /\ UNCHANGED <<clockVars, tokenVars, fileVars, configVars, toolRegistry>>

(* ----------------------------- .env events ----------------------------- *)

\* the user saves the .env file; the watcher may or may not report it
EditEnv(file, seen) ==
  /\ edits < MaxEdits
  /\ file # envFile
  /\ edits' = edits + 1
  /\ envFile' = file
  /\ envMtimeMs' = envMtimeMs + 1
  /\ envWatchTimeout' = (envWatchTimeout \/ seen)
  /\ UNCHANGED <<clockVars, tokenVars, configVars, toolRegistry, inv>>

\* the debounce timer of startEnvWatcher fires: a forced refresh
EnvWatcherFired ==
  /\ envWatchTimeout
  /\ envWatchTimeout' = FALSE
  /\ refreshEnvConfigIfChanged(TRUE)
  /\ UNCHANGED <<clockVars, tokenVars, envFile, envMtimeMs, edits, toolRegistry, inv>>

\* setupServerEvents: a client connects
Connect ==
  /\ processEnv' = dotenvConfig(processEnv, envFile)
  /\ authConfig' = loadAuthConfig(dotenvConfig(processEnv, envFile))
  /\ lastEnvMtimeMs' = envMtimeMs
  /\ UNCHANGED <<clockVars, tokenVars, fileVars, toolBaseUrl, toolRegistry, inv>>

(* ------------------------- request body alone -------------------------- *)

\* HttpClient.buildRequestBody applied to a tool and an argument set
BuildBody(p, tool, args) ==
  /\ inv[p].pc = "idle"
  /\ inv' = [inv EXCEPT ![p] =
       [Idle EXCEPT !.pc = "built", !.kind = "buildRequestBody",
                    !.toolName = tool.name, !.args = args,
                    !.request = [NoRequest EXCEPT !.data = buildRequestBody(tool, args)]]]
  /\ UNCHANGED <<clockVars, tokenVars, fileVars, configVars, toolRegistry>>

\* the body is handed back to buildRequestConfig
BuildReturn(p) ==
  /\ inv[p].pc = "built"
  /\ inv' = [inv EXCEPT ![p] = Idle]
  /\ UNCHANGED <<clockVars, tokenVars, fileVars, configVars, toolRegistry>>

(* ------------------------- loadAuthConfig alone ------------------------ *)

\* an environment is given, nothing is loaded yet
InitAuth ==
  /\ now = 0
  /\ ticks = 0
  /\ largeBatchConfirmations = [k \in {} |-> 0]
  /\ uuids = 0
  /\ toolRegistry = [n \in ToolNames |->
                       [tool |-> ToolByName(n), schema |-> buildZodSchema(ToolByName(n))]]
  /\ toolBaseUrl = [n \in ToolNames |-> CompiledBaseUrl(ToolByName(n).apiName)]
  /\ envFile = <<>>
  /\ processEnv \in AuthEnvs
  /\ authConfig = [a \in AuthApis |-> NoAuth]
  /\ envMtimeMs = 0
  /\ lastEnvMtimeMs = 0
  /\ edits = 0
  /\ envWatchTimeout = FALSE
  /\ inv = [p \in Procs |-> Idle]
  /\ accepted = [k \in BogusToken .. MaxTokens |-> 0]

\* loadAuthConfig runs over process.env; the slot keeps the successive
\* values of its local authConfig
LoadAuth(p) ==
  /\ inv[p].pc = "idle"
  /\ authConfig' = loadAuthConfig(processEnv)
  /\ inv' = [inv EXCEPT ![p] =
       [Idle EXCEPT !.pc = "loaded", !.kind = "loadAuthConfig",
                    !.results = AuthTrace(processEnv)]]
  /\ UNCHANGED <<clockVars, tokenVars, fileVars, toolRegistry, processEnv,
                 toolBaseUrl, lastEnvMtimeMs>>

\* the Auth Record set is handed to the server
LoadReturn(p) ==
  /\ inv[p].pc = "loaded"
  /\ inv' = [inv EXCEPT ![p] = Idle]
  /\ UNCHANGED <<clockVars, tokenVars, fileVars, configVars, toolRegistry>>

(* ------------------ a file's tools and its credential ------------------ *)

\* A description file is loaded with one credential variable set, and one
\* of its tools builds its headers: the spec's apiName is
\* getApiNameFromFile(file) and the tool reads authConfig[spec.apiName]
FileAuth(p, file, key) ==
  LET loaded == loadAuthConfigOf(key, "secret")
      apiName == getApiNameFromFile(file)
      auth == IF loaded.apiName = apiName THEN loaded.record ELSE NoAuth
  IN /\ inv[p].pc = "idle"
     /\ inv' = [inv EXCEPT ![p] =
          [Idle EXCEPT !.pc = "authed", !.kind = "fileAuth", !.toolName = apiName,
                       !.results = <<[file |-> file, key |-> key,
                                      storedUnder |-> loaded.apiName]>>,
                       !.request = [NoRequest EXCEPT !.headers =
                          applyAuthentication([h \in HeaderNames |-> <<>>], auth)]]]
     /\ UNCHANGED <<clockVars, tokenVars, fileVars, configVars, toolRegistry>>

FileAuthReturn(p) ==
  /\ inv[p].pc = "authed"
  /\ inv' = [inv EXCEPT ![p] = Idle]
  /\ UNCHANGED <<clockVars, tokenVars, fileVars, configVars, toolRegistry>>

(* ----------------------- compiling one document ------------------------ *)

\* parseOpenApiSpec on a validated document: the slot keeps the document's
\* paths and the tools generateToolsFromSpec emits
ParseSpec(p, paths) ==
  /\ inv[p].pc = "idle"
  /\ inv' = [inv EXCEPT ![p] =
       [Idle EXCEPT !.pc = "parsed", !.kind = "generateToolsFromSpec",
                    !.items = Items(Len(paths), paths, NoArgs),
                    !.results = generateToolsFromSpec(paths)]]
  /\ UNCHANGED <<clockVars, tokenVars, fileVars, configVars, toolRegistry>>

ParseReturn(p) ==
  /\ inv[p].pc = "parsed"
  /\ inv' = [inv EXCEPT ![p] = Idle]
  /\ UNCHANGED <<clockVars, tokenVars, fileVars, configVars, toolRegistry>>

(* --------------------------- naming the tools -------------------------- *)

\* two operations are compiled and registered one after the other: the slot
\* keeps them with their names, and which of them each name is bound to
NameTools(p, pair) ==
  LET name(o) == generateToolName(getApiNameFromFile(o.file), o.operationId,
                                  o.pathParts, o.method)
      names == <<name(pair[1]), name(pair[2])>>
  IN /\ inv' = [inv EXCEPT ![p] =
          [Idle EXCEPT !.pc = "named", !.kind = "generateToolName",
                       !.results = <<[operation |-> pair[1], name |-> names[1],
                                      registered |-> RegisteredAs(names)[names[1]] = 1],
                                     [operation |-> pair[2], name |-> names[2],
                                      registered |-> RegisteredAs(names)[names[2]] = 2]>>]]
     /\ UNCHANGED <<clockVars, tokenVars, fileVars, configVars, toolRegistry>>

NameReturn(p) ==
  /\ inv[p].pc = "named"
  /\ inv' = [inv EXCEPT ![p] = Idle]
  /\ UNCHANGED <<clockVars, tokenVars, fileVars, configVars, toolRegistry>>

(* ------------------------ extracting parameters ------------------------ *)

\* the parameters of one operation are extracted; the slot keeps the
\* declared list and the descriptors
ExtractParams(p, paramRefs) ==
  /\ inv' = [inv EXCEPT ![p] =
        [Idle EXCEPT !.pc = "extracted", !.kind = "extractParameters",
                     !.items = paramRefs, !.results = extractParameters(paramRefs)]]
  /\ UNCHANGED <<clockVars, tokenVars, fileVars, configVars, toolRegistry>>

ExtractReturn(p) ==
  /\ inv[p].pc = "extracted"
  /\ inv' = [inv EXCEPT ![p] = Idle]
  /\ UNCHANGED <<clockVars, tokenVars, fileVars, configVars, toolRegistry>>

(* ------------------------- validating arguments ------------------------ *)

\* the whole-tool validator of a tool is built and applied to an argument set
ValidateArgs(p, tool, args) ==
  /\ inv' = [inv EXCEPT ![p] =
        [Idle EXCEPT !.pc = "validated", !.kind = "safeParse",
                     !.toolName = tool.name, !.items = tool.parameters,
                     !.args = args,
                     !.validated = <<safeParse(buildZodSchema(tool), args).success>>]]
  /\ UNCHANGED <<clockVars, tokenVars, fileVars, configVars, toolRegistry>>

ValidateReturn(p) ==
  /\ inv[p].pc = "validated"
  /\ inv' = [inv EXCEPT ![p] = Idle]
  /\ UNCHANGED <<clockVars, tokenVars, fileVars, configVars, toolRegistry>>

(* ------------------------- synthesizing validators --------------------- *)

\* a tool with one parameter, whose schema is a fragment of a dereferenced
\* table (0: absent), is registered
SynthesizeSchema(p, schemas, ref) ==
  /\ inv' = [inv EXCEPT ![p] =
        [Idle EXCEPT !.pc = "synthesized", !.kind = "openAPISchemaToZod",
                     !.items = schemas, !.index = ref,
                     !.results = <<RegisterWithSchema(schemas, ref)>>]]
  /\ UNCHANGED <<clockVars, tokenVars, fileVars, configVars, toolRegistry>>

SynthesizeReturn(p) ==
  /\ inv[p].pc = "synthesized"
  /\ inv' = [inv EXCEPT ![p] = Idle]
  /\ UNCHANGED <<clockVars, tokenVars, fileVars, configVars, toolRegistry>>

(* --------------------------- base URL of a document -------------------- *)

\* a document is compiled: the slot keeps it and the base URL of its tools
CompileBaseUrl(p, spec) ==
  /\ inv' = [inv EXCEPT ![p] =
        [Idle EXCEPT !.pc = "compiled", !.kind = "getBaseUrl",
                     !.items = spec, !.results = <<getBaseUrl(spec)>>]]
  /\ UNCHANGED <<clockVars, tokenVars, fileVars, configVars, toolRegistry>>

\* a document is loaded while {NAME}_SERVER_URL is unset; the variable is
\* then set to newUrl and a refresh rewrites the base URL of the tools.
\* The slot keeps the document, the variable, the refreshed base URL and
\* the base URL a load of the same file and variable compiles.
ReloadBaseUrl(p, spec, newUrl) ==
  /\ inv' = [inv EXCEPT ![p] =
        [Idle EXCEPT !.pc = "compiled", !.kind = "resolveToolBaseUrl",
                     !.items = spec, !.response = newUrl,
                     !.results = <<resolveToolBaseUrl(spec, newUrl),
                                   getBaseUrl(applyServerUrlToSpec(spec, newUrl))>>]]
  /\ UNCHANGED <<clockVars, tokenVars, fileVars, configVars, toolRegistry>>

CompileReturn(p) ==
  /\ inv[p].pc = "compiled"
  /\ inv' = [inv EXCEPT ![p] = Idle]
  /\ UNCHANGED <<clockVars, tokenVars, fileVars, configVars, toolRegistry>>

(* --------------------------- specifications ---------------------------- *)

\* the confirmation gate: batches around the threshold, the clock
Next ==
  \/ \E p \in Procs, a \in LargeCalls \cup UnknownCalls : BatchStart(p, a)
  \/ \E p \in Procs : BatchItemDone(p)
  \/ \E p \in Procs : ResourceReady(p)
  \/ \E d \in TickSteps : Tick(d)

Spec == Init /\ [][Next]_vars

\* the item loop: every short item list and the batches around the
\* threshold, with and without fail-fast
NextLoop ==
  \/ \E p \in Procs, a \in SmallCalls \cup ThresholdCalls \cup LargeCalls :
       BatchStart(p, a)
  \/ \E p \in Procs : BatchItemDone(p)
  \/ \E p \in Procs : ResourceReady(p)

SpecLoop == Init /\ [][NextLoop]_vars

\* single calls and batches while the .env file is edited
NextEnv ==
  \/ \E p \in Procs, n \in ToolNames, args \in SingleArgs : SingleStart(p, n, args)
  \/ \E p \in Procs : SingleDone(p)
  \/ \E p \in Procs, a \in UnknownCalls \cup EnvCalls : BatchStart(p, a)
  \/ \E p \in Procs : BatchItemDone(p)
  \/ \E p \in Procs : ResourceReady(p)
  \/ \E file \in EnvFiles, seen \in BOOLEAN : EditEnv(file, seen)
  \/ EnvWatcherFired
  \/ Connect

SpecEnv == Init /\ [][NextEnv]_vars

\* buildRequestBody over every tool of the catalog and every argument set
NextBody ==
  \/ \E p \in Procs, tool \in GeneratedTools, args \in BodyArgs : BuildBody(p, tool, args)
  \/ \E p \in Procs : BuildReturn(p)

SpecBody == Init /\ [][NextBody]_vars

\* loadAuthConfig over every environment of AuthEnvs
NextAuth ==
  \/ \E p \in Procs : LoadAuth(p)
  \/ \E p \in Procs : LoadReturn(p)

SpecAuth == InitAuth /\ [][NextAuth]_vars

\* every description file with every credential variable
NextFiles ==
  \/ \E p \in Procs, file \in SpecFiles, key \in CredentialKeys : FileAuth(p, file, key)
  \/ \E p \in Procs : FileAuthReturn(p)

SpecFilesAuth == Init /\ [][NextFiles]_vars

\* every document of Documents is compiled
NextParse ==
  \/ \E p \in Procs : inv[p].pc = "idle" /\ \E paths \in Documents : ParseSpec(p, paths)
  \/ \E p \in Procs : ParseReturn(p)

SpecParse == Init /\ [][NextParse]_vars

\* every pair of distinct operations is named and registered
NextNames ==
  \/ \E p \in Procs : inv[p].pc = "idle" /\ \E pair \in OperationPairs : NameTools(p, pair)
  \/ \E p \in Procs : NameReturn(p)

SpecNames == Init /\ [][NextNames]_vars

\* every list of declared parameters is extracted
NextParams ==
  \/ \E p \in Procs : inv[p].pc = "idle" /\ \E refs \in ParamLists : ExtractParams(p, refs)
  \/ \E p \in Procs : ExtractReturn(p)

SpecParams == Init /\ [][NextParams]_vars

\* every tool of SchemaTools validates every argument set
NextSchema ==
  \/ \E p \in Procs : inv[p].pc = "idle" /\
       \E tool \in SchemaTools, args \in SchemaArgs : ValidateArgs(p, tool, args)
  \/ \E p \in Procs : ValidateReturn(p)

SpecSchema == Init /\ [][NextSchema]_vars

\* every fragment of every table is converted
NextSynthesis ==
  \/ \E p \in Procs : inv[p].pc = "idle" /\
       \E schemas \in SchemaTables : \E ref \in 0..Len(schemas) :
         SynthesizeSchema(p, schemas, ref)
  \/ \E p \in Procs : SynthesizeReturn(p)

SpecSynthesis == Init /\ [][NextSynthesis]_vars

\* every document is compiled, and reloaded with every server URL
NextBaseUrl ==
  \/ \E p \in Procs : inv[p].pc = "idle" /\ \E spec \in BaseUrlDocs : CompileBaseUrl(p, spec)
  \/ \E p \in Procs : inv[p].pc = "idle" /\
       \E spec \in BaseUrlDocs, newUrl \in ServerUrlTexts : ReloadBaseUrl(p, spec, newUrl)
  \/ \E p \in Procs : CompileReturn(p)

SpecBaseUrl == Init /\ [][NextBaseUrl]_vars

\* two batch invocations in flight at once: each runs from await to await,
\* and the other may run in between
InitRace ==
  /\ now = 0
  /\ ticks = 0
  /\ largeBatchConfirmations = [k \in {} |-> 0]
  /\ uuids = 0
  /\ toolRegistry = [n \in ToolNames |->
                       [tool |-> ToolByName(n), schema |-> buildZodSchema(ToolByName(n))]]
  /\ toolBaseUrl = [n \in ToolNames |-> CompiledBaseUrl(ToolByName(n).apiName)]
  /\ envFile = InitialEnvFile
  /\ processEnv = dotenvConfig(<<>>, InitialEnvFile)
  /\ authConfig = loadAuthConfig(dotenvConfig(<<>>, InitialEnvFile))
  /\ envMtimeMs = 0
  /\ lastEnvMtimeMs = 0
  /\ edits = 0
  /\ envWatchTimeout = FALSE
  /\ inv = [p \in RaceProcs |-> Idle]
  /\ accepted = [k \in BogusToken .. MaxTokens |-> 0]

NextRace ==
  \/ \E p \in RaceProcs, a \in RaceCalls : BatchStart(p, a)
  \/ \E p \in RaceProcs : BatchItemDone(p)
  \/ \E p \in RaceProcs : ResourceReady(p)
  \/ \E d \in TickSteps : Tick(d)

SpecRace == InitRace /\ [][NextRace]_vars

\* single and batch invocations in two handler slots while the .env file
\* is edited: a refresh runs at the start of an invocation or when the
\* debounce timer fires, between the awaits of the other invocation
NextAtomic ==
  \/ \E p \in RaceProcs, args \in AtomicArgs : SingleStart(p, <<"cars_getCarById">>, args)
  \/ \E p \in RaceProcs : SingleDone(p)
  \/ \E p \in RaceProcs, a \in EnvCalls : BatchStart(p, a)
  \/ \E p \in RaceProcs : BatchItemDone(p)
  \/ \E p \in RaceProcs : ResourceReady(p)
  \/ \E file \in EnvFiles, seen \in BOOLEAN : EditEnv(file, seen)
  \/ EnvWatcherFired
  \/ Connect

SpecAtomic == InitRace /\ [][NextAtomic]_vars

(* ------------------------------ properties ----------------------------- *)

\* a step in which handler slot p starts a specrun_batch call
StartsBatch(p) == inv[p].pc = "idle" /\ inv'[p].kind = "batch"
\* the call names a registered tool
KnownTool(st) == st.toolName \in DOMAIN toolRegistry
\* the call carries no confirmation fields
NoConfirmationFields(st) == ~st.confirmLargeBatch /\ st.confirmLargeBatchToken = NoToken
\* the call presents, with the flag set, a token that `table` holds unexpired
\* at time t for this call's tool and item count
PresentsValidToken(st, table, t) ==
  /\ st.confirmLargeBatch
  /\ st.confirmLargeBatchToken \in DOMAIN table
  /\ table[st.confirmLargeBatchToken].expiresAt > t
  /\ table[st.confirmLargeBatchToken].toolName = st.toolName
  /\ table[st.confirmLargeBatchToken].count = st.items.n
\* no item of the call has been validated, dispatched or recorded
ZeroItems(st) == st.validated = <<>> /\ st.dispatched = <<>> /\ st.results = <<>>
\* the indices of the items that parse against the tool's schema
ValidIndices(st) ==
  {i \in 0 .. st.items.n - 1 :
     safeParse(buildZodSchema(ToolByName(st.toolName)), ItemAt(st.items, i)).success}
UpTo(n) == [k \in 1 .. n |-> k - 1]

\* C1: a batch call for a known tool gets the confirmation-required response
\* exactly when it has more than 200 items and presents no valid token; that
\* response comes with zero items validated or executed and exactly one
\* token minted, never drawn before, bound to (normalized tool name, item
\* count, now + 5 min); a batch of at most 200 items without confirmation
\* fields starts processing at once and mints nothing.
C1_LargeBatchGate ==
  [][\A p \in Procs :
       (StartsBatch(p) /\ KnownTool(inv'[p])) =>
         LET st == inv'[p]
             short == st.response = "confirmationRequired"
         IN /\ short <=> (st.items.n > 200 /\
                          ~PresentsValidToken(st, largeBatchConfirmations, now))
            /\ short =>
                 /\ ZeroItems(st)
                 /\ uuids' = uuids + 1
                 /\ st.issuedToken > uuids
                 /\ st.issuedToken \in DOMAIN largeBatchConfirmations'
                 /\ largeBatchConfirmations'[st.issuedToken] =
                      [toolName |-> st.toolName, count |-> st.items.n,
                       expiresAt |-> now + 300000]
                 /\ \A k \in DOMAIN largeBatchConfirmations' :
                      k # st.issuedToken => k \in DOMAIN largeBatchConfirmations
            /\ (st.items.n <= 200 /\ NoConfirmationFields(st)) =>
                 /\ ~short
                 /\ st.validated # <<>>
                 /\ UNCHANGED <<largeBatchConfirmations, uuids>>]_vars

C1_Witness ==
  \E p \in Procs :
    /\ inv[p].response = "confirmationRequired"
    /\ inv[p].items.n = 201
    /\ NoConfirmationFields(inv[p])
    /\ inv[p].issuedToken \in DOMAIN largeBatchConfirmations

C3_SingleUse ==
  /\ [](\A k \in DOMAIN accepted :
          /\ accepted[k] <= 1
          /\ accepted[k] = 1 => k \notin DOMAIN largeBatchConfirmations)
  /\ [][\A p \in Procs :
          (/\ StartsBatch(p)
           /\ KnownTool(inv'[p])
           /\ inv'[p].items.n > 200
           /\ inv'[p].confirmLargeBatchToken \in DOMAIN accepted
           /\ accepted[inv'[p].confirmLargeBatchToken] >= 1) =>
            /\ inv'[p].response = "confirmationRequired"
            /\ ZeroItems(inv'[p])]_vars

C3_Witness ==
  \E p \in Procs :
    /\ accepted[1] = 1
    /\ inv[p].confirmLargeBatch
    /\ inv[p].confirmLargeBatchToken = 1
    /\ inv[p].items.n > 200
    /\ inv[p].response = "confirmationRequired"

\* C4: a batch of more than 200 items for a known tool gets past the gate
\* only if it presents, with the flag set, a token that is in the table, whose
\* expiry is strictly later than the current time and whose tool name and
\* item count equal the call's normalized tool name and item count.
C4_GateOnlyOnValidToken ==
  [][\A p \in Procs :
       (/\ StartsBatch(p)
        /\ KnownTool(inv'[p])
        /\ inv'[p].items.n > 200
        /\ inv'[p].response # "confirmationRequired") =>
         PresentsValidToken(inv'[p], largeBatchConfirmations, now)]_vars

\* a token bound to another count, or expiring at this very millisecond, was
\* presented and refused
C4_Witness ==
  \E p \in Procs :
    LET st == inv[p]
    IN /\ st.response = "confirmationRequired"
       /\ st.confirmLargeBatch
       /\ st.confirmLargeBatchToken \in DOMAIN largeBatchConfirmations
       /\ largeBatchConfirmations[st.confirmLargeBatchToken].toolName = st.toolName
       /\ largeBatchConfirmations[st.confirmLargeBatchToken].count # st.items.n
       /\ st.items.n > 200

\* the entries of a sequence, as a set
Range(q) == {q[k] : k \in DOMAIN q}

\* C5: every executeRequest invocation ends as a success or as a failure and
\* hands its caller an API Call Result {requestUrl, requestBody,
\* response: {status, body}}; no exception reaches the caller, whatever the
\* tool, the Auth Record, the arguments and the transport do.
C5_ExecuteRequestAlwaysReturns ==
  \A p \in Procs :
    /\ inv[p].response # "thrown"
    /\ inv[p].pc = "awaitHttp" =>
         /\ ~inv[p].pending.threw
         /\ inv[p].pending.outcome \in {"success", "failure"}
         /\ {"requestUrl", "requestBody", "response"} \subseteq DOMAIN inv[p].pending
         /\ DOMAIN inv[p].pending.response = {"status", "body"}
         /\ inv[p].request.threw => inv[p].pending.outcome = "failure"

\* a request that could not be built came back as a failure result
C5_Witness ==
  \E p \in Procs :
    /\ inv[p].pc = "awaitHttp"
    /\ inv[p].request.threw
    /\ inv[p].pending.outcome = "failure"
    /\ ~inv[p].pending.threw

\* C6: a batch validates its items in index order, dispatches one at a time
\* (an item is validated only when every earlier item has its outcome
\* recorded), records the outcome of item i at position i labelled i, and
\* without fail-fast ends with exactly one outcome per submitted item.
C6_InOrderOnePerItem ==
  \A p \in Procs :
    inv[p].kind = "batch" =>
      LET st == inv[p]
          nv == Len(st.validated)
          nd == Len(st.dispatched)
      IN /\ st.validated = UpTo(nv)
         /\ \A j, k \in DOMAIN st.dispatched : j < k => st.dispatched[j] < st.dispatched[k]
         /\ Range(st.dispatched) \subseteq Range(st.validated)
         /\ \A k \in DOMAIN st.results : st.results[k].index = k - 1
         /\ Len(st.results) \in {nv - 1, nv}
         /\ Len(st.results) = nv - 1 <=>
              (st.pc = "awaitHttp" /\ nd > 0 /\ st.dispatched[nd] = nv - 1)
         /\ (st.response = "bundle" /\ ~st.failFast) => Len(st.results) = st.items.n

C6_Witness ==
  \E p \in Procs :
    /\ inv[p].response = "bundle"
    /\ ~inv[p].failFast
    /\ inv[p].items.n = 2
    /\ Len(inv[p].results) = 2
    /\ IsErrorEntry(inv[p].results[1])
    /\ ~IsErrorEntry(inv[p].results[2])

\* an outcome that reports a failed item: a validation error, or a result of
\* a failed execution
EntryFailed(e) == IsErrorEntry(e) \/ e.result.outcome = "failure"

\* C7: with failFast set, the first failed item, whether it failed validation
\* or execution, is the last one processed: its outcome is the last of the
\* bundle and no later item is validated or dispatched.
C7_FailFastHaltsAtFirstFailure ==
  \A p \in Procs :
    (inv[p].kind = "batch" /\ inv[p].failFast) =>
      \A k \in DOMAIN inv[p].results :
        EntryFailed(inv[p].results[k]) =>
          /\ k = Len(inv[p].results)
          /\ Len(inv[p].validated) = k
          /\ inv[p].pc # "awaitHttp"

\* C8: a batch item that fails validation against the tool's schema gets an
\* error outcome under its index in the step that validates it, and is never
\* dispatched: no request is built or sent for it.
C8_InvalidNeverDispatched ==
  \A p \in Procs :
    inv[p].kind = "batch" =>
      \A i \in Range(inv[p].validated) \ ValidIndices(inv[p]) :
        /\ i \notin Range(inv[p].dispatched)
        /\ Len(inv[p].results) > i
        /\ IsErrorEntry(inv[p].results[i + 1])
        /\ inv[p].results[i + 1].index = i

C8_Witness ==
  \E p \in Procs :
    /\ inv[p].response = "bundle"
    /\ inv[p].items.n = 2
    /\ inv[p].validated = <<0, 1>>
    /\ inv[p].dispatched = <<1>>
    /\ IsErrorEntry(inv[p].results[1])

\* a step in which a batch call finds its tool unknown
UnknownToolStep(p) == StartsBatch(p) /\ inv'[p].response = "unknownTool"

\* C9 as claimed: a batch call naming an unknown tool processes zero items
\* and changes neither the token table, the registry, the Auth Record map nor
\* the tool base URLs.
C9_UnknownToolChangesNothing ==
  [][\A p \in Procs :
       UnknownToolStep(p) =>
         /\ ZeroItems(inv'[p])
         /\ UNCHANGED <<largeBatchConfirmations, uuids, accepted, toolRegistry,
                        authConfig, toolBaseUrl>>]_vars

\* C9 as amended: a batch call naming an unknown tool processes zero items
\* and mints or consumes no token and leaves the registry alone, however many
\* items it has; the Auth Record map and the tool base URLs are left as they
\* were when the .env file is unchanged since the last refresh, and otherwise
\* hold what the refresh at the start of the call computes from the file.
C9_UnknownToolOnlyRefreshes ==
  [][\A p \in Procs :
       UnknownToolStep(p) =>
         /\ ZeroItems(inv'[p])
         /\ UNCHANGED <<largeBatchConfirmations, uuids, accepted, toolRegistry>>
         /\ envMtimeMs = lastEnvMtimeMs => UNCHANGED <<authConfig, toolBaseUrl>>
         /\ envMtimeMs # lastEnvMtimeMs =>
              /\ authConfig' = RefreshedAuth
              /\ toolBaseUrl' = RefreshedBaseUrls]_vars

\* an unknown-tool call of more than 200 items that started after an edit
C9_Witness ==
  \E p \in Procs :
    /\ inv[p].response = "unknownTool"
    /\ inv[p].items.n > 200
    /\ inv[p].confirmLargeBatch
    /\ inv[p].refreshed
    /\ uuids = 0

\* the arguments a single call was invoked with
CallArgs(st) == st.items.head[1]
\* the object of the arguments that match no declared parameter name
Leftover(tool, args) == [k \in ArgKeys |-> IF k \in ParamNames(tool) THEN Absent ELSE args[k]]
HasBodyParam(tool) == \E i \in DOMAIN tool.parameters : tool.parameters[i].in = "body"
CollectedBody(tool, args) ==
  IF \E k \in ArgKeys : Leftover(tool, args)[k] # Absent
  THEN ObjectBody(Leftover(tool, args)) ELSE NullBody

BodyParamArg(tool, args) ==
  LET bodyIdx == {i \in DOMAIN tool.parameters : tool.parameters[i].in = "body"}
  IN IF bodyIdx = {} THEN Absent
     ELSE args[tool.parameters[CHOOSE i \in bodyIdx : \A j \in bodyIdx : i <= j].name]

\* a state in which buildRequestBody has been applied in slot p
BodyBuilt(p) == inv[p].kind = "buildRequestBody" /\ inv[p].pc = "built"

Executed(p) == inv[p].pc = "awaitHttp"
\* what the remote did with the request of slot p (meaningful once built)
Reply(p) == axios(inv[p].request)

\* C12: the result of a failed transport call never has a 2xx status, and
\* when the remote sent a body with its error status the result's
\* response.body is that body.
C12_FailureKeepsStatusAndBody ==
  \A p \in Procs :
    (Executed(p) /\ inv[p].pending.outcome = "failure") =>
      /\ ~IsSuccessStatus(inv[p].pending.response.status)
      /\ (/\ ~inv[p].request.threw
          /\ Reply(p).kind = "errorStatus"
          /\ Reply(p).data # Absent) =>
           /\ inv[p].pending.response.body = Reply(p).data
           /\ inv[p].pending.response.status = HttpStatus(Reply(p).status)

C12_Witness ==
  \E p \in Procs :
    /\ Executed(p)
    /\ inv[p].pending.outcome = "failure"
    /\ inv[p].pending.response.status = HttpStatus(404)
    /\ inv[p].pending.response.body = Str("not found")

\* C13: a call that fails without any response from the remote (no response
\* received, or a local failure) returns a result whose status is a sentinel
\* and whose body is a non-null error body.
C13_NoResponseHasErrorBody ==
  \A p \in Procs :
    (Executed(p) /\ (inv[p].request.threw \/ Reply(p).kind = "noResponse")) =>
      /\ ~inv[p].pending.response.status.num
      /\ inv[p].pending.response.body # Absent

\* the credential variables an environment sets: a recognized suffix and a
\* non-empty value
Credentials(env) ==
  {env[i] : i \in {j \in DOMAIN env : env[j][2] # "" /\ AuthTypeOf(env[j][1]) # "none"}}
\* a state in which loadAuthConfig has run in slot p
AuthLoaded(p) == inv[p].kind = "loadAuthConfig" /\ inv[p].pc = "loaded"

\* C14: with CARS_API_KEY=abc the only credential set, cars is
\* {apiKey, token "abc", headerName "X-API-Key"}; with CARS_TOKEN=xyz or
\* CARS_BEARER_TOKEN=xyz the only one, cars is {bearer, token "xyz"} with no
\* other field; a record exists exactly under the lower-cased prefixes of
\* the credentials set.
C14_SingleVariableClassified ==
  \A p \in Procs :
    AuthLoaded(p) =>
      LET creds == Credentials(processEnv)
      IN /\ creds = {<<EnvKey("CARS", "_API_KEY"), "abc">>} =>
              authConfig["cars"] = AuthRecord("apiKey", "abc", "", "", "X-API-Key")
         /\ creds = {<<EnvKey("CARS", "_TOKEN"), "xyz">>} =>
              authConfig["cars"] = AuthRecord("bearer", "xyz", "", "", "")
         /\ creds = {<<EnvKey("CARS", "_BEARER_TOKEN"), "xyz">>} =>
              authConfig["cars"] = AuthRecord("bearer", "xyz", "", "", "")
         /\ \A a \in AuthApis :
              authConfig[a] # NoAuth <=> \E c \in creds : toLowerCase(c[1].prefix) = a

C14_Witness ==
  \E p \in Procs :
    /\ AuthLoaded(p)
    /\ Credentials(processEnv) = {<<EnvKey("CARS", "_API_KEY"), "abc">>}
    /\ Len(processEnv) > 1
    /\ authConfig["cars"].headerName = "X-API-Key"

\* C15: while loadAuthConfig scans, in any order, the type of an API's record
\* changes only from apiKey or basic to bearer; with a bearer credential and
\* an apiKey or basic credential set for one API its final type is bearer.
C15_PromotionOnly ==
  \A p \in Procs :
    AuthLoaded(p) =>
      /\ \A i \in 1 .. Len(inv[p].results) - 1 : \A a \in AuthApis :
           LET before == inv[p].results[i][a].type
               after == inv[p].results[i + 1][a].type
           IN (before # "none" /\ before # after) =>
                (before \in {"apiKey", "basic"} /\ after = "bearer")
      /\ \A a \in AuthApis :
           (\E c \in Credentials(processEnv) :
              toLowerCase(c[1].prefix) = a /\ AuthTypeOf(c[1]) = "bearer") =>
             authConfig[a].type = "bearer"

\* a bearer credential scanned first, an API key after it
C15_Witness ==
  \E p \in Procs :
    /\ AuthLoaded(p)
    /\ Len(processEnv) = 2
    /\ processEnv[1] = <<EnvKey("CARS", "_TOKEN"), "xyz">>
    /\ processEnv[2] = <<EnvKey("CARS", "_API_KEY"), "abc">>
    /\ authConfig["cars"].type = "bearer"

\* README: the variable documented for a description file
DocumentedKey(file) ==
  CASE file = <<"cars">> -> <<"CARS", "API", "KEY">>
    [] file = <<"github", "-", "api">> -> <<"GITHUB", "TOKEN">>
    [] file = <<"my", "_", "custom", "_", "api">> -> <<"MY", "CUSTOM", "API", "KEY">>
    [] OTHER -> <<>>

\* C16: with the variable the README documents for a description file set,
\* the Auth Record is stored under the API name getApiNameFromFile gives the
\* file, and the file's tools send the credential.
C16_DocumentedVariableAuthenticates ==
  \A p \in Procs :
    (/\ inv[p].kind = "fileAuth"
     /\ inv[p].pc = "authed"
     /\ inv[p].results[1].key = DocumentedKey(inv[p].results[1].file)) =>
      /\ inv[p].results[1].storedUnder = inv[p].toolName
      /\ \E h \in HeaderNames : inv[p].request.headers[h] # <<>>

\* C17: after a refresh the Auth Record set holds only what the config file
\* as it is at that refresh yields: whenever the file has been read since
\* its last change, the Auth Records are those computed from the file alone,
\* so a credential deleted from the file is in no record.
C17_AuthFullyRecomputed ==
  lastEnvMtimeMs = envMtimeMs => authConfig = loadAuthConfig(dotenvConfig(<<>>, envFile))

\* a step in which a hot-reload refresh runs: the debounce timer fires, or
\* a call starts while the .env file is newer than the last one seen
HotReload ==
  \/ envWatchTimeout /\ ~envWatchTimeout'
  \/ \E p \in Procs :
       inv[p].pc = "idle" /\ inv'[p].pc # "idle" /\ envMtimeMs # lastEnvMtimeMs

\* C18: no step changes the registered tool names, the tool definitions'
\* other fields or the validators; a hot-reload refresh gives every tool of
\* an API whose {NAME}_SERVER_URL is set in the process environment the
\* base URL recomputed from it, leaves the base URL of every other tool as
\* it was, and a request built from then on by a call already in progress
\* uses the new base URL.
C18_RefreshChangesOnlyBaseUrls ==
  [][/\ toolRegistry' = toolRegistry
     /\ DOMAIN toolBaseUrl' = DOMAIN toolBaseUrl
     /\ HotReload =>
          \A n \in ToolNames :
            LET api == ToolByName(n).apiName
                url == resolveServerUrl(api, processEnv')
            IN toolBaseUrl'[n] =
                 IF url = "" THEN toolBaseUrl[n]
                 ELSE resolveToolBaseUrl(ParsedSpecs[api], url)
     /\ ~HotReload => toolBaseUrl' = toolBaseUrl
     /\ \A p \in Procs :
          (inv'[p] # inv[p] /\ inv'[p].pc = "awaitHttp" /\ ~inv'[p].request.threw) =>
            inv'[p].request.url.base =
              Url(toolBaseUrl'[inv'[p].toolName].origin,
                  StripTrailingSlash(toolBaseUrl'[inv'[p].toolName].path))]_vars

\* the pets tools moved to a new base URL, the cars tools where they were
C18_Witness ==
  /\ toolBaseUrl[<<"pets_addPet">>] = Url("https://new.pets", "/v2")
  /\ toolBaseUrl[<<"cars_addCar">>] = CompiledBaseUrl("cars")
  /\ lastEnvMtimeMs = envMtimeMs
  /\ \E p \in Procs : inv[p].kind = "batch" /\ inv[p].pc = "awaitHttp"

\* a step in which slot p starts a tool invocation that builds a request
StartsRequest(p) ==
  inv[p].pc = "idle" /\ inv'[p].pc = "awaitHttp" /\ ~inv'[p].request.threw

\* C19: a tool invocation, single or batch, builds its first request with
\* the Auth Records and the tool base URL that the .env file as it is when
\* the invocation starts yields, whatever edits, watcher events (reported or
\* missed) and client connects came before.
C19_InvocationSeesChangedFile ==
  [][\A p \in Procs :
       StartsRequest(p) =>
         LET name == inv'[p].toolName
             tool == ToolByName(name)
         IN /\ authConfig' = RefreshedAuth
            /\ toolBaseUrl' = RefreshedBaseUrls
            /\ inv'[p].request.url.base =
                 Url(RefreshedBaseUrls[name].origin,
                     StripTrailingSlash(RefreshedBaseUrls[name].path))
            /\ inv'[p].request.headers =
                 buildRequestConfig(tool, RefreshedBaseUrls[name],
                                    RefreshedAuth[tool.apiName], inv'[p].args).headers]_vars

\* the (path index, verb) operations of a document that can be compiled
ValidOperations(paths) ==
  {o \in (DOMAIN paths) \X {Methods[k] : k \in DOMAIN Methods} :
     /\ paths[o[1]].isObject
     /\ paths[o[1]].parameters = "list"
     /\ OperationOf(paths[o[1]], o[2]) = "ok"}

\* C20: the tools emitted for a document are as many as its operations
\* under the seven verbs that can be compiled, one for each of them; an
\* operation that cannot be compiled takes no other operation's tool away.
C20_OneToolPerValidOperation ==
  \A p \in Procs :
    (inv[p].kind = "generateToolsFromSpec" /\ inv[p].pc = "parsed") =>
      LET paths == inv[p].items.head
          tools == inv[p].results
      IN /\ Len(tools) = Cardinality(ValidOperations(paths))
         /\ \A o \in ValidOperations(paths) :
              \E k \in DOMAIN tools :
                tools[k].path = PathTemplates[o[1]] /\ tools[k].method = o[2]

\* a malformed operation before and after operations that compile
C20_Witness ==
  \E p \in Procs :
    /\ inv[p].kind = "generateToolsFromSpec"
    /\ inv[p].pc = "parsed"
    /\ Len(inv[p].items.head) = 2
    /\ inv[p].items.head[1].isObject
    /\ inv[p].items.head[1].parameters = "list"
    /\ inv[p].items.head[1].ops["get"] = "malformed"
    /\ inv[p].items.head[1].ops["options"] = "ok"
    /\ inv[p].items.head[2].parameters = "notIterable"
    /\ Len(inv[p].results) = 1

\* C21: two distinct operations, of one document or of two description
\* files, never get the same tool name, and each of them is the tool its
\* name is bound to in the registry.
C21_ToolNamesUnique ==
  \A p \in Procs :
    (inv[p].kind = "generateToolName" /\ inv[p].pc = "named") =>
      /\ inv[p].results[1].name # inv[p].results[2].name
      /\ inv[p].results[1].registered
      /\ inv[p].results[2].registered

Extracted(p) == inv[p].kind = "extractParameters" /\ inv[p].pc = "extracted"

\* C22: every Parameter Descriptor whose location is path has required = true,
\* whatever the document declares: a path parameter declared with a name and
\* a schema has a descriptor, and no descriptor with location path is optional.
C22_PathParametersRequired ==
  \A p \in Procs : Extracted(p) =>
    /\ \A k \in DOMAIN inv[p].results :
         inv[p].results[k].in = "path" => inv[p].results[k].required = TRUE
    /\ \A j \in DOMAIN inv[p].items :
         (inv[p].items[j].in = "path" /\ Extractable(inv[p].items[j])) =>
           \E k \in DOMAIN inv[p].results :
             /\ inv[p].results[k].name = inv[p].items[j].name
             /\ inv[p].results[k].in = "path"
             /\ inv[p].results[k].required = TRUE

\* a path parameter declared optional, and one with no required flag, extracted
C22_Witness ==
  \E p \in Procs : Extracted(p) /\
    /\ \E j \in DOMAIN inv[p].items :
         inv[p].items[j].in = "path" /\ inv[p].items[j].required = "false"
           /\ Extractable(inv[p].items[j])
    /\ \E j \in DOMAIN inv[p].items :
         inv[p].items[j].in = "path" /\ inv[p].items[j].required = "undefined"
           /\ Extractable(inv[p].items[j])
    /\ Len(inv[p].results) = 2

Validated(p) == inv[p].kind = "safeParse" /\ inv[p].pc = "validated"

\* C23: the whole-tool validator rejects an argument set in which a required
\* parameter is absent, whatever the parameter's schema fragment, and it
\* accepts an argument set whose only absent parameters are optional ones.
C23_RequiredAbsentRejected ==
  \A p \in Procs : Validated(p) =>
    LET params == inv[p].items
        present == {k \in DOMAIN params : inv[p].args[params[k].name] # Absent}
    IN /\ (\E k \in DOMAIN params : params[k].required /\ k \notin present)
            => inv[p].validated = <<FALSE>>
       /\ ((\A k \in DOMAIN params : k \notin present => ~params[k].required)
           /\ (\A k \in present :
                 ZodAccepts(openAPISchemaToZod(params[k].schema),
                            inv[p].args[params[k].name])))
            => inv[p].validated = <<TRUE>>

Synthesized(p) == inv[p].kind = "openAPISchemaToZod" /\ inv[p].pc = "synthesized"

\* C24: schema synthesis ends with a validator for every fragment: absent,
\* not an object, of an unknown type, nested, or referring to itself after
\* dereferencing; nothing is thrown and the tool is registered.
C24_SynthesisNeverFails ==
  \A p \in Procs : Synthesized(p) =>
    /\ ~inv[p].results[1].threw
    /\ inv[p].results[1].validator # <<>>
    /\ inv[p].results[1].registered

Compiled(p) == inv[p].kind = "getBaseUrl" /\ inv[p].pc = "compiled"

\* a base URL without explicit path gets the document's base path
WithBasePath(baseUrl, basePath) ==
  IF basePath # "" /\ baseUrl.path \in {"", "/"}
  THEN Url(baseUrl.origin, basePath) ELSE baseUrl

\* C25: for every document, OpenAPI 3 or Swagger 2.0, the compiled base URL
\* is the x-base-url override when there is one; else the first server with
\* {var} replaced by its default; else scheme + host + basePath of a
\* version-2 document; else the placeholder; and a base URL without path
\* gets the document's base path.
C25_BaseUrlPrecedence ==
  \A p \in Procs : Compiled(p) =>
    LET spec == inv[p].items
        compiled == inv[p].results[1]
    IN CASE Trim(spec.xBaseUrl) # "" ->
              compiled = WithBasePath(UrlOfText(Trim(spec.xBaseUrl)), spec.basePath)
         [] Trim(spec.xBaseUrl) = "" /\ Len(spec.servers) > 0 ->
              compiled = WithBasePath(
                 IF spec.servers[1].url = "https://{env}.cars"
                 THEN Url("https://prod.cars", "") ELSE UrlOfText(spec.servers[1].url),
                 spec.basePath)
         [] Trim(spec.xBaseUrl) = "" /\ Len(spec.servers) = 0
              /\ spec.version = "swagger" /\ spec.host # "" ->
              compiled = Url(OriginOf(IF spec.scheme = "" THEN "https" ELSE spec.scheme,
                                      spec.host), spec.basePath)
         [] OTHER -> compiled = DEFAULT_SERVER_URL

Reloaded(p) == inv[p].kind = "resolveToolBaseUrl" /\ inv[p].pc = "compiled"

\* C30: for an API whose {NAME}_SERVER_URL is set, the base URL its tools
\* carry after a hot-reload refresh equals the base URL a fresh load (server
\* entry of the description file rewritten from the variable, then compiled)
\* computes, also for a document with x-base-url or a base path.
C30_HotReloadAgreesWithFreshLoad ==
  \A p \in Procs : Reloaded(p) => inv[p].results[1] = inv[p].results[2]

\* slot p runs a batch of more than 200 items that presents token t with
\* the flag set
PresentsInFlight(p, t) ==
  /\ inv[p].pc # "idle"
  /\ inv[p].kind = "batch"
  /\ inv[p].items.n > 200
  /\ inv[p].confirmLargeBatch
  /\ inv[p].confirmLargeBatchToken = t
\* the gate let slot p's batch through
PastGate(p) == inv[p].response # "confirmationRequired"

\* C26: of two batch invocations in flight at the same time that present the
\* same token, at most one is past the gate, however they interleave at
\* their awaits; no token is ever accepted twice.
C26_OneAcceptedPerToken ==
  /\ \A p \in RaceProcs, q \in RaceProcs, t \in 1 .. MaxTokens :
       (p # q /\ PresentsInFlight(p, t) /\ PresentsInFlight(q, t)) =>
         ~(PastGate(p) /\ PastGate(q))
  /\ \A t \in 1 .. MaxTokens : accepted[t] <= 1

\* the first invocation is accepted and still awaits its request when the
\* second presents the same token, for the same tool and count, and is refused
C26_Witness ==
  \E p \in RaceProcs, q \in RaceProcs, t \in 1 .. MaxTokens :
    /\ p # q
    /\ PresentsInFlight(p, t) /\ PresentsInFlight(q, t)
    /\ inv[p].pc = "awaitHttp" /\ PastGate(p)
    /\ inv[q].items.n = inv[p].items.n
    /\ inv[q].toolName = inv[p].toolName
    /\ inv[q].pc = "awaitResource" /\ ~PastGate(q)

\* a step in which slot p builds an outbound request: at the start of an
\* invocation or when a batch goes on to its next item
BuildsRequest(p) ==
  /\ inv'[p] # inv[p]
  /\ inv'[p].pc = "awaitHttp"
  /\ ~inv'[p].request.threw
\* the request slot p would build from a base URL table and an Auth Record map
RequestFrom(st, baseUrls, auths) ==
  buildRequestConfig(ToolByName(st.toolName), baseUrls[st.toolName],
                     auths[ToolByName(st.toolName).apiName], st.args)

PresentsLiveToken(p, k) ==
  /\ StartsBatch(p)
  /\ inv'[p].confirmLargeBatchToken = k
  /\ k \in DOMAIN largeBatchConfirmations
  /\ largeBatchConfirmations[k].expiresAt > now
\* ... and the presentation is refused or not looked at: the flag is false,
\* the tool or the count is not the token's, or the batch has at most 200 items
RejectedPresentation(p, k) ==
  /\ PresentsLiveToken(p, k)
  /\ \/ ~inv'[p].confirmLargeBatch
     \/ inv'[p].toolName # largeBatchConfirmations[k].toolName
     \/ inv'[p].items.n # largeBatchConfirmations[k].count
     \/ inv'[p].items.n <= 200

\* C28: a presentation of an issued, unexpired token that is rejected (flag
\* false, other tool, other count) or that comes with 200 items or fewer
\* leaves the token in the table with its binding and expiry, so that a
\* later matching call can still use it; a token leaves the table only in a
\* step that accepts it or that looks it up after its expiry.
C28_RejectionKeepsToken ==
  /\ [][\A p \in Procs, k \in 1 .. MaxTokens :
          RejectedPresentation(p, k) =>
            /\ k \in DOMAIN largeBatchConfirmations'
            /\ largeBatchConfirmations'[k] = largeBatchConfirmations[k]
            /\ accepted'[k] = accepted[k]]_vars
  /\ [][\A k \in DOMAIN largeBatchConfirmations :
          k \notin DOMAIN largeBatchConfirmations' =>
            \E p \in Procs :
              /\ StartsBatch(p)
              /\ inv'[p].confirmLargeBatch
              /\ inv'[p].confirmLargeBatchToken = k
              /\ inv'[p].items.n > 200
              /\ \/ /\ PresentsValidToken(inv'[p], largeBatchConfirmations, now)
                    /\ accepted'[k] = accepted[k] + 1
                 \/ largeBatchConfirmations[k].expiresAt <= now]_vars

\* a call with the flag set and another item count presented a token, was
\* refused and got a new one; the token it presented is still in the table,
\* unexpired and never accepted
C28_Witness ==
  \E p \in Procs :
    LET st == inv[p]
    IN /\ st.kind = "batch" /\ st.response = "confirmationRequired"
       /\ st.confirmLargeBatch
       /\ st.confirmLargeBatchToken \in DOMAIN largeBatchConfirmations
       /\ largeBatchConfirmations[st.confirmLargeBatchToken].expiresAt > now
       /\ largeBatchConfirmations[st.confirmLargeBatchToken].toolName = st.toolName
       /\ largeBatchConfirmations[st.confirmLargeBatchToken].count # st.items.n
       /\ accepted[st.confirmLargeBatchToken] = 0
       /\ st.issuedToken # st.confirmLargeBatchToken

HasValue(entry) == entry[2] # ""
BearerPlaceholder == <<EnvKey("CARS", "_BEARER_TOKEN"), "">>

\* C29: a variable whose value is empty, such as the CARS_BEARER_TOKEN=
\* placeholder, creates no Auth Record and changes no type or field of an
\* existing one: the loop leaves its authConfig as it was at every such
\* variable, the records are those of the variables that have a value, and
\* an API with only CARS_API_KEY set keeps type apiKey beside the placeholder.
C29_EmptyValuesInert ==
  \A p \in Procs :
    AuthLoaded(p) =>
      /\ \A i \in DOMAIN processEnv :
           ~HasValue(processEnv[i]) => inv[p].results[i + 1] = inv[p].results[i]
      /\ authConfig = loadAuthConfig(SelectSeq(processEnv, HasValue))
      /\ (\A i \in DOMAIN processEnv : ~HasValue(processEnv[i])) =>
           authConfig = [a \in AuthApis |-> NoAuth]
      /\ (/\ Credentials(processEnv) = {<<EnvKey("CARS", "_API_KEY"), "abc">>}
          /\ \E i \in DOMAIN processEnv : processEnv[i] = BearerPlaceholder) =>
           authConfig["cars"] = AuthRecord("apiKey", "abc", "", "", "X-API-Key")

\* CARS_API_KEY=abc followed by the placeholder has been loaded
C29_Witness ==
  \E p \in Procs :
    /\ AuthLoaded(p)
    /\ \E i, j \in DOMAIN processEnv :
         /\ i < j
         /\ processEnv[i] = <<EnvKey("CARS", "_API_KEY"), "abc">>
         /\ processEnv[j] = BearerPlaceholder
    /\ authConfig["cars"].type = "apiKey"

====
